---- MODULE Spec2Model ----
(***************************************************************************)
(* Model of the simple render pipeline of jxl-rs                           *)
(* (jxl/src/render/simple_pipeline.rs): the pipeline builder (new,         *)
(* add_stage, build) and the pipeline runtime (fill_input, do_render).     *)
(*                                                                         *)
(* Specifications sharing the variables:                                   *)
(*   Spec        the builder: new -> add_stage* -> build                   *)
(*   SpecRun     the runtime: pipelines returned by build(), fill_input    *)
(*   SpecFill    the runtime, for channels of different sample types       *)
(*   SpecMirror  the mirror closure of the InOut executor, step by step    *)
(*   SpecExec    run_stage_on of the four stage executors                  *)
(*   SpecConcat  util::ConcatSlice                                         *)
(*   SpecLog2    util::FloorLog2 and util::CeilLog2                        *)
(***************************************************************************)
EXTENDS Integers, Naturals, Sequences, FiniteSets, TLC

VARIABLES
    phase,                \* "building" | "failed" | "built": where the builder/pipeline is
    result,               \* what the last call returned (Ok, an Error, or a panic)
    channel_info,         \* Vec<Vec<ChannelInfo>>: one row per stage boundary
    input_size,           \* (usize, usize)
    log_group_size,       \* usize
    xgroups,              \* usize
    stages,               \* Vec<Box<dyn RunStage>>: the stages' static attributes
    group_ready_passes,   \* Vec<usize>, indexed by group id
    completed_passes,     \* usize
    input_buffers,        \* Vec<Image<f64>>
    can_shift,            \* builder flag
    renders,              \* number of complete executions of the stage chain so far
    fills,                \* per group: successful fills so far (2 = two or more)
    last_call,            \* the last call made: its name and its arguments
    mirror,               \* a call of the mirror closure: its arguments, v, and where it is
    exec,                 \* a call of run_stage_on: its arguments and the buffers
    concat,               \* a ConcatSlice, and the Vec its bytes are delivered into
    log2                  \* a call of floor_log2 or ceil_log2: its receiver and its result

pipeline_vars == <<phase, result, channel_info, input_size, log_group_size, xgroups,
                   stages, group_ready_passes, completed_passes, input_buffers, can_shift,
                   renders, fills, last_call>>

unit_vars == <<mirror, exec, concat, log2>>

vars == <<phase, result, channel_info, input_size, log_group_size, xgroups, stages,
          group_ready_passes, completed_passes, input_buffers, can_shift, renders,
          fills, last_call, mirror, exec, concat, log2>>

-----------------------------------------------------------------------------
(* Bounds of the model.                                                    *)

MaxChannels == 2      \* num_channels of new()
MaxStages == 3        \* add_stage calls per builder
MaxDim == 6           \* image width and height
MaxL == 1             \* log_group_size
MaxPasses == 2        \* cap of a group's ready-pass counter

-----------------------------------------------------------------------------
(* Values.                                                                 *)

\* DataTypeTag values the model draws from (the enumeration has six).
Types == {"U8", "F32"}

\* Option<DataTypeTag>::None
NoneTy == "None"

\* u8::MAX: ChannelInfo.downsample and the SHIFT constants are u8.
U8Max == 255

\* Nonzero SHIFT values of the stages the model draws from; 128 + 128 overflows u8.
ShiftValues == {<<1, 2>>, <<1, 128>>, <<128, 1>>}

Channels(nc) == 0 .. nc - 1

\* uses_channel of the stages drawn: the first channel, the last one, or all.
UseSets == {{0}, {MaxChannels - 1}, Channels(MaxChannels)}

\* A stage: its structural variant and the static attributes the variant carries
\* (INPUT_TYPE, OUTPUT_TYPE.unwrap_or(INPUT_TYPE), SHIFT) and its uses_channel.
Stage(kind, input_type, output_type, shift, uses) ==
    [kind |-> kind, input_type |-> input_type, output_type |-> output_type,
     shift |-> shift, uses |-> uses]

\* The stages add_stage is called with. Only InOut stages have an OUTPUT_TYPE
\* of their own and a SHIFT.
StageSet ==
    {Stage("Input", t, t, <<0, 0>>, u) : t \in Types, u \in UseSets}
    \cup {Stage("Extend", t, t, <<0, 0>>, Channels(MaxChannels)) : t \in Types}
    \cup {Stage("InOut", "U8", "U8", sh, u) : sh \in ShiftValues, u \in UseSets}
    \cup {Stage("InOut", "U8", "F32", <<0, 0>>, u) : u \in UseSets}
    \cup {Stage("InOut", "F32", "U8", <<0, 0>>, {0})}

\* RunStage::uses_channel
uses_channel(stage, c) == c \in stage.uses

\* usize::shrc(shift): ceil(x / 2^shift), by repeated halving.
RECURSIVE ShrC(_, _)
ShrC(x, s) == IF s = 0 \/ x <= 1 THEN x ELSE ShrC((x + 1) \div 2, s - 1)

\* x << s and x >> s on usize, for the small shifts of the runtime.
RECURSIVE Shl(_, _)
Shl(x, s) == IF s = 0 \/ x = 0 THEN x ELSE Shl(2 * x, s - 1)

RECURSIVE Shr(_, _)
Shr(x, s) == IF s = 0 \/ x = 0 THEN x ELSE Shr(x \div 2, s - 1)

Min(a, b) == IF a <= b THEN a ELSE b

ChannelInfo(ty, downsample) == [ty |-> ty, downsample |-> downsample]

\* Return values: Ok, the Error variants, and a panic.
Ok == [kind |-> "Ok", c |-> 0, expected |-> NoneTy, actual |-> NoneTy]
Err(kind) == [kind |-> kind, c |-> 0, expected |-> NoneTy, actual |-> NoneTy]
ErrChannel(kind, c) == [kind |-> kind, c |-> c, expected |-> NoneTy, actual |-> NoneTy]
ErrMismatch(c, expected, actual) ==
    [kind |-> "PipelineChannelTypeMismatch", c |-> c, expected |-> expected,
     actual |-> actual]
Panic(what) == [kind |-> what, c |-> 0, expected |-> NoneTy, actual |-> NoneTy]

-----------------------------------------------------------------------------
(* SimpleRenderPipelineBuilder::add_stage                                  *)

\* Mutation of MismatchChannels: an unknown type is taken for a different one.
MismatchChannelsUnknownToo(current_info, stage) ==
    {c \in DOMAIN current_info :
        uses_channel(stage, c) /\ current_info[c].ty # stage.input_type}

\* The channels on which the stage's INPUT_TYPE differs from a known type.
MismatchChannels(current_info, stage) ==
    {c \in DOMAIN current_info :
        /\ uses_channel(stage, c)
        /\ current_info[c].ty # NoneTy
        /\ current_info[c].ty # stage.input_type}

\* The channel the loop over current_info stops at: the first mismatching one.
FirstMismatch(current_info, stage) ==
    CHOOSE c \in MismatchChannels(current_info, stage) :
        \A d \in MismatchChannels(current_info, stage) : c <= d

\* after_info, for a stage that passed the type check.
AfterInfo(current_info, stage) ==
    [c \in DOMAIN current_info |->
        IF ~uses_channel(stage, c)
        THEN ChannelInfo(current_info[c].ty, <<0, 0>>)
        ELSE ChannelInfo(stage.output_type, stage.shift)]

\* What add_stage returns.
AddStageResult(current_info, shiftable, stage) ==
    IF MismatchChannels(current_info, stage) # {}
    THEN LET c == FirstMismatch(current_info, stage)
         IN  ErrMismatch(c, stage.input_type, current_info[c].ty)
    ELSE IF ~shiftable /\ stage.shift # <<0, 0>>
    THEN Err("PipelineShiftAfterExpand")
    ELSE Ok

\* Mutation of CanShiftAfter: an Extend stage leaves can_shift alone.
CanShiftAfterKept(shiftable, stage) == shiftable

\* can_shift after a successful add_stage.
CanShiftAfter(shiftable, stage) == IF stage.kind = "Extend" THEN FALSE ELSE shiftable

-----------------------------------------------------------------------------
(* SimpleRenderPipelineBuilder::build                                      *)
(* Rows of channel_info are numbered from 1: row s + 1 is the code's       *)
(* channel_info[s], the channel shapes before stage s.                     *)

\* The branch `cur_chan.ty.is_none() && !stage.uses_channel(chan)` of the sweep.
CarriesTypeBack(cur_ty, stage, chan) == cur_ty = NoneTy /\ ~uses_channel(stage, chan)

\* Mutation of checked_add: the sum so far is dropped.
checked_add_dropping(a, b) == IF a + b > U8Max THEN -1 ELSE b

\* checked_add on u8: -1 stands for None.
checked_add(a, b) == IF a + b > U8Max THEN -1 ELSE a + b

\* The downsample stored into next_chan: the total of the stages after s.
NextTotalDownsample(cur_downsample) == cur_downsample

\* One iteration of the inner loop: stage index s (from 0), channel chan.
\* st = [ci, ds, status]; status is "run" until the sweep panics or returns.
BuildStep(st, stage, s, chan) ==
    LET cur_chan  == st.ci[s + 1][chan]
        next_chan == st.ci[s + 2][chan]
        carried   == CarriesTypeBack(cur_chan.ty, stage, chan)
        new_ty    == IF carried THEN next_chan.ty ELSE stage.input_type
        cur_ds    == st.ds[chan]
        x         == checked_add(cur_ds[1], next_chan.downsample[1])
        y         == checked_add(cur_ds[2], next_chan.downsample[2])
        ci1       == [st.ci EXCEPT ![s + 1][chan].ty = new_ty]
    IN  IF ~carried /\ stage.output_type # next_chan.ty
        THEN [st EXCEPT !.status = "panic"]
        ELSE IF x = -1 \/ y = -1
        THEN [st EXCEPT !.ci = ci1, !.status = "ArithmeticOverflow"]
        ELSE [ci |-> [ci1 EXCEPT ![s + 2][chan].downsample =
                                      NextTotalDownsample(cur_ds)],
              ds |-> [st.ds EXCEPT ![chan] = <<x, y>>],
              status |-> "run"]

\* The two nested loops: s from the last stage down to 0, chan from 0 up.
RECURSIVE BuildSweep(_, _, _, _)
BuildSweep(st, stgs, s, chan) ==
    IF st.status # "run" \/ s < 0 THEN st
    ELSE IF chan >= Cardinality(DOMAIN st.ci[1]) THEN BuildSweep(st, stgs, s - 1, 0)
    ELSE BuildSweep(BuildStep(st, stgs[s + 1], s, chan), stgs, s, chan + 1)

\* channel_info[0][chan].downsample = cur_downsamples[chan]
StoreInputDownsample(ci, ds) ==
    [ci EXCEPT ![1] = [c \in DOMAIN ci[1] |-> ChannelInfo(ci[1][c].ty, ds[c])]]

\* The (row, channel) entries whose type is still unknown.
UnknownEntries(ci) ==
    {rc \in (1 .. Len(ci)) \X DOMAIN ci[1] : ci[rc[1]][rc[2]].ty = NoneTy}

\* Mutation of FirstUnknownChannel: the last unknown entry is reported.
LastUnknownChannel(ci) ==
    LET last == CHOOSE rc \in UnknownEntries(ci) :
                    \A o \in UnknownEntries(ci) :
                        rc[1] > o[1] \/ (rc[1] = o[1] /\ rc[2] >= o[2])
    IN  last[2]

\* The channel of the first unknown entry, rows first, channels within a row.
FirstUnknownChannel(ci) ==
    LET first == CHOOSE rc \in UnknownEntries(ci) :
                    \A o \in UnknownEntries(ci) :
                        rc[1] < o[1] \/ (rc[1] = o[1] /\ rc[2] <= o[2])
    IN  first[2]

\* Image::new(size): an image of default (zero) samples.
NewImage(size) ==
    [size |-> size,
     data |-> [p \in (0 .. size[1] - 1) \X (0 .. size[2] - 1) |-> 0]]

\* The size of the input buffer of a channel whose row-0 record is info.
InputBufferSize(size, info) ==
    <<ShrC(size[1], info.downsample[1]), ShrC(size[2], info.downsample[2])>>

\* build() as a function: [result, channel_info, input_buffers].
\* alloc_fails: whether an Image::new of the input buffers fails.
BuildOutcome(ci0, stgs, size, alloc_fails) ==
    LET nc    == Cardinality(DOMAIN ci0[1])
        swept == BuildSweep([ci |-> ci0, ds |-> [c \in Channels(nc) |-> <<0, 0>>],
                             status |-> "run"], stgs, Len(stgs) - 1, 0)
        ci1   == StoreInputDownsample(swept.ci, swept.ds)
    IN  IF swept.status = "panic"
        THEN [result |-> Panic("panic_type_assertion"), channel_info |-> swept.ci,
              input_buffers |-> <<>>]
        ELSE IF swept.status = "ArithmeticOverflow"
        THEN [result |-> Err("ArithmeticOverflow"), channel_info |-> swept.ci,
              input_buffers |-> <<>>]
        ELSE IF UnknownEntries(ci1) # {}
        THEN [result |-> ErrChannel("PipelineChannelUnused", FirstUnknownChannel(ci1)),
              channel_info |-> ci1, input_buffers |-> <<>>]
        ELSE IF alloc_fails
        THEN [result |-> Err("OutOfMemory"), channel_info |-> ci1,
              input_buffers |-> <<>>]
        ELSE [result |-> Ok, channel_info |-> ci1,
              input_buffers |->
                  [c \in Channels(nc) |-> NewImage(InputBufferSize(size, ci1[1][c]))]]

-----------------------------------------------------------------------------
(* The builder as a state machine.                                         *)

\* usize::shrc(log_group_size) of both axes: the group grid.
GroupGrid(size, L) == <<ShrC(size[1], L), ShrC(size[2], L)>>

\* SimpleRenderPipelineBuilder::new_with_chunk_size
New(num_channels, size, L) ==
    /\ phase = "building"
    /\ result = Ok
    /\ channel_info = <<[c \in Channels(num_channels) |-> ChannelInfo(NoneTy, <<0, 0>>)]>>
    /\ input_size = size
    /\ log_group_size = L
    /\ xgroups = GroupGrid(size, L)[1]
    /\ stages = <<>>
    /\ group_ready_passes =
           [g \in 0 .. GroupGrid(size, L)[1] * GroupGrid(size, L)[2] - 1 |-> 0]
    /\ completed_passes = 0
    /\ input_buffers = <<>>
    /\ can_shift = TRUE
    /\ renders = 0
    /\ fills = [g \in 0 .. GroupGrid(size, L)[1] * GroupGrid(size, L)[2] - 1 |-> 0]
    /\ last_call = [op |-> "new"]

\* No call of the closure, of an executor or of ConcatSlice is under way.
Idle == [pc |-> "idle"]

Init ==
    /\ New(MaxChannels, <<MaxDim, MaxDim - 1>>, MaxL)
    /\ mirror = Idle /\ exec = Idle /\ concat = Idle /\ log2 = Idle

\* add_stage(stage): an error consumes the builder and leaves nothing behind.
AddStage ==
    \E stage \in StageSet :
        /\ phase = "building"
        /\ Len(stages) < MaxStages
        /\ LET current_info == channel_info[Len(channel_info)]
               res == AddStageResult(current_info, can_shift, stage)
           IN  /\ result' = res
               /\ IF res = Ok
                  THEN /\ channel_info' = Append(channel_info, AfterInfo(current_info, stage))
                       /\ stages' = Append(stages, stage)
                       /\ can_shift' = CanShiftAfter(can_shift, stage)
                       /\ phase' = "building"
                  ELSE /\ phase' = "failed"
                       /\ UNCHANGED <<channel_info, stages, can_shift>>
        /\ last_call' = [op |-> "add_stage", stage |-> stage]
        /\ UNCHANGED <<input_size, log_group_size, xgroups, group_ready_passes,
                       completed_passes, input_buffers, renders, fills>>
        /\ UNCHANGED unit_vars

\* build(): the pipeline, an error, or a failed assertion.
Build ==
    \E alloc_fails \in BOOLEAN :
        /\ phase = "building"
        /\ LET out == BuildOutcome(channel_info, stages, input_size, alloc_fails)
           IN  /\ result' = out.result
               /\ channel_info' = out.channel_info
               /\ input_buffers' = out.input_buffers
               /\ phase' = IF out.result = Ok THEN "built" ELSE "failed"
        /\ last_call' = [op |-> "build"]
        /\ UNCHANGED <<input_size, log_group_size, xgroups, stages, group_ready_passes,
                       completed_passes, can_shift, renders, fills>>
        /\ UNCHANGED unit_vars

Next == AddStage \/ Build

Spec == Init /\ [][Next]_vars

-----------------------------------------------------------------------------
(* SimpleRenderPipeline::fill_input_two_types: one group_info of the list. *)

\* group = (group_id % xgroups, group_id / xgroups)
GroupOf(group_id, xg) == <<group_id % xg, group_id \div xg>>

\* Mutation of GOffset: the group's coordinates are taken as its offset.
GOffsetUnshifted(group, L) == group

\* goffset = (group.0 << log_group_size, group.1 << log_group_size)
GOffset(group, L) == <<Shl(group[1], L), Shl(group[2], L)>>

\* One axis of gsize: input_size.min((goffset + 1) << log_group_size) - goffset
GSizeAxis(size, goffset, L) == Min(size, Shl(goffset + 1, L)) - goffset

GSize(size, goffset, L) ==
    <<GSizeAxis(size[1], goffset[1], L), GSizeAxis(size[2], goffset[2], L)>>

\* The size of the tile allocated for a channel: gsize.shrc(downsample).
TileSize(gsize, downsample) ==
    <<ShrC(gsize[1], downsample[1]), ShrC(gsize[2], downsample[2])>>

\* off = (goffset.0 >> downsample.0, goffset.1 >> downsample.1)
TileOffset(goffset, downsample) ==
    <<Shr(goffset[1], downsample[1]), Shr(goffset[2], downsample[2])>>

\* The assert_eq! pair on the group offset, for one channel.
Aligned(goffset, downsample) ==
    /\ goffset[1] % Shl(1, downsample[1]) = 0
    /\ goffset[2] % Shl(1, downsample[2]) = 0

\* T::to_f64 of a sample: the values of the model are small integers, which
\* u8 and f32 both convert to f64 exactly.
to_f64(v) == v

\* The samples the decoder's fill function writes for a group: it fills every
\* tile it is handed with the group's data.
GroupData(group_id) == group_id + 1

\* The channels the first loop over channel_info[0] panics at.
TileProblems(info0, goffset, types) ==
    {c \in DOMAIN info0 :
        \/ ~Aligned(goffset, info0[c].downsample)
        \/ info0[c].ty \notin {types[1], types[2]}}

\* The first loop over channel_info[0]: the panic it ends with, the error of
\* the allocation that fails (that of channel fail_at's tile), or "ok".
TileProblem(info0, goffset, types, fail_at) ==
    LET bad == TileProblems(info0, goffset, types)
        c   == CHOOSE b \in bad : \A d \in bad : b <= d
    IN  IF bad = {} \/ (fail_at >= 0 /\ fail_at < c)
        THEN IF fail_at >= 0 THEN "OutOfMemory" ELSE "ok"
        ELSE IF ~Aligned(goffset, info0[c].downsample) THEN "panic_misaligned_group"
        ELSE "panic_unknown_type"

\* Whether every sample of the tile has a place in the input buffer.
TileFits(buf, off, tsize) ==
    off[1] + tsize[1] <= buf.size[1] /\ off[2] + tsize[2] <= buf.size[2]

\* The inner copy loops: buf with the samples of the tile written at off.
WriteTile(buf, off, tile) ==
    [buf EXCEPT !.data =
        [p \in DOMAIN buf.data |->
            IF /\ p[1] - off[1] \in 0 .. tile.size[1] - 1
               /\ p[2] - off[2] \in 0 .. tile.size[2] - 1
            THEN to_f64(tile.data[<<p[1] - off[1], p[2] - off[2]>>])
            ELSE buf.data[p]]]

\* A tile every sample of which the fill function has set to v.
FilledTile(tsize, v) ==
    [size |-> tsize, data |-> [p \in (0 .. tsize[1] - 1) \X (0 .. tsize[2] - 1) |-> v]]

\* The copy loops: the tile of each channel written at off into its buffer.
CopyTiles(bufs, info0, goffset, gsize, v) ==
    [c \in DOMAIN bufs |->
        WriteTile(bufs[c], TileOffset(goffset, info0[c].downsample),
                  FilledTile(TileSize(gsize, info0[c].downsample), v))]

\* Mutation of TileIndex: every channel is given the first tile of its bucket.
TileIndexFirst(images) == 0

\* ch_idx.push(images.len()), before the tile is pushed
TileIndex(images) == Len(images)

\* The first loop over channel_info[0] from channel c on, when it neither
\* panics nor fails: st = [images1, images2, ch_idx]. A tile is its image
\* and the channel whose iteration allocated it.
RECURSIVE AllocateTiles(_, _, _, _, _)
AllocateTiles(info0, gsize, types, c, st) ==
    IF c \notin DOMAIN info0 THEN st
    ELSE LET tile == [size |-> TileSize(gsize, info0[c].downsample), chan |-> c,
                      data |-> NewImage(TileSize(gsize, info0[c].downsample)).data]
         IN  IF info0[c].ty = types[1]
             THEN AllocateTiles(info0, gsize, types, c + 1,
                      [st EXCEPT !.ch_idx = Append(@, TileIndex(st.images1)),
                                 !.images1 = Append(@, tile)])
             ELSE IF info0[c].ty = types[2]
             THEN AllocateTiles(info0, gsize, types, c + 1,
                      [st EXCEPT !.ch_idx = Append(@, TileIndex(st.images2)),
                                 !.images2 = Append(@, tile)])
             ELSE st

\* The fill functions the block of lines 338-347 invokes, in order.
FillCalls(st) ==
    (IF st.images1 # <<>> THEN <<1>> ELSE <<>>) \o (IF st.images2 # <<>> THEN <<2>> ELSE <<>>)

\* A fill function: it sets every sample of every tile it is handed to v.
FillFn(images, v) ==
    [i \in DOMAIN images |-> [images[i] EXCEPT !.data = FilledTile(images[i].size, v).data]]

\* images1[ch_idx[c]] or images2[ch_idx[c]]: the tile the copy loops read for
\* channel c.
CopiedTile(info0, types, st, c) ==
    IF info0[c].ty = types[1] THEN st.images1[st.ch_idx[c + 1] + 1]
    ELSE st.images2[st.ch_idx[c + 1] + 1]

\* The copy loops, reading the tiles the fill functions have written.
CopyFilled(bufs, info0, goffset, types, st) ==
    [c \in DOMAIN bufs |->
        WriteTile(bufs[c], TileOffset(goffset, info0[c].downsample),
                  CopiedTile(info0, types, st, c))]

-----------------------------------------------------------------------------
(* SimpleRenderPipeline::do_render                                         *)

\* Mutation of NoNewPass: a pass already rendered counts as new.
NoNewPassStrict(ready_passes, completed) == ready_passes < completed

\* `ready_passes <= self.completed_passes`: the early return.
NoNewPass(ready_passes, completed) == ready_passes <= completed

\* Mutation of ReadyPasses: the most advanced group decides.
ReadyPassesMax(grp) == CHOOSE m \in {grp[g] : g \in DOMAIN grp} : \A g \in DOMAIN grp : m >= grp[g]

\* group_ready_passes.iter().copied().min().unwrap()
ReadyPasses(grp) == CHOOSE m \in {grp[g] : g \in DOMAIN grp} : \A g \in DOMAIN grp : m <= grp[g]

\* RenderPipelineStage::new_size: the size is kept (no Extend stage runs here).
NewSize(stage, size) == size

\* The buffers a stage writes: those of the channels it uses are replaced when
\* the stage shifts or changes the size.
OutputSizes(stage, sizes, current_size, info_after) ==
    [c \in DOMAIN sizes |->
        IF /\ uses_channel(stage, c)
           /\ (stage.shift # <<0, 0>> \/ NewSize(stage, current_size) # current_size)
        THEN <<ShrC(NewSize(stage, current_size)[1], info_after[c].downsample[1]),
               ShrC(NewSize(stage, current_size)[2], info_after[c].downsample[2])>>
        ELSE sizes[c]]

\* The assertions at the head of run_stage_on, over the channels the stage uses.
SizesAccepted(stage, in_sizes, out_sizes) ==
    LET used == {c \in DOMAIN in_sizes : uses_channel(stage, c)}
    IN  \/ used = {}
        \/ /\ \A c, d \in used : in_sizes[c] = in_sizes[d]
           /\ stage.kind \in {"InOut", "Extend"} =>
                  \A c, d \in used : out_sizes[c] = out_sizes[d]
           /\ stage.kind = "InPlace" =>
                  \A c, d \in used : out_sizes[c] = in_sizes[d]
           /\ stage.kind = "InOut" =>
                  \A c \in used :
                      /\ Shl(in_sizes[c][1], stage.shift[1]) = out_sizes[c][1]
                      /\ Shl(in_sizes[c][2], stage.shift[2]) = out_sizes[c][2]
           /\ stage.kind = "Extend" =>
                  \A c \in used : out_sizes[c] = NewSize(stage, in_sizes[c])

\* The loop over the stages from stage i on (numbered from 1): [status, ran,
\* sizes], ran being the number of stages that processed their rows and sizes
\* those of current_buffers. oom_at = i makes the allocation of stage i's
\* buffers fail.
RECURSIVE RunStages(_, _, _, _, _, _, _)
RunStages(stgs, ci, i, sizes, current_size, oom_at, ran) ==
    IF i > Len(stgs) THEN [status |-> "Ok", ran |-> ran, sizes |-> sizes]
    ELSE IF oom_at = i THEN [status |-> "OutOfMemory", ran |-> ran, sizes |-> sizes]
    ELSE LET out == OutputSizes(stgs[i], sizes, current_size, ci[i + 1])
             cs  == IF stgs[i].shift # <<0, 0>> \/ NewSize(stgs[i], current_size) # current_size
                    THEN NewSize(stgs[i], current_size) ELSE current_size
         IN  IF ~SizesAccepted(stgs[i], sizes, out)
             THEN [status |-> "panic_size_assertion", ran |-> ran, sizes |-> sizes]
             ELSE RunStages(stgs, ci, i + 1, out, cs, oom_at, ran + 1)

\* Mutation of Reallocated: a stage that resizes replaces every channel's buffer.
ReallocatedAll(stage, bufs, current_size, info_after) ==
    [c \in DOMAIN bufs |->
        IF stage.shift # <<0, 0>> \/ NewSize(stage, current_size) # current_size
        THEN NewImage(<<ShrC(NewSize(stage, current_size)[1], info_after[c].downsample[1]),
                        ShrC(NewSize(stage, current_size)[2], info_after[c].downsample[2])>>)
        ELSE bufs[c]]

\* output_buffers before run_stage_on: clone_images(&current_buffers), with a
\* new image for each channel the stage uses when it shifts or resizes.
Reallocated(stage, bufs, current_size, info_after) ==
    [c \in DOMAIN bufs |->
        IF /\ uses_channel(stage, c)
           /\ (stage.shift # <<0, 0>> \/ NewSize(stage, current_size) # current_size)
        THEN NewImage(<<ShrC(NewSize(stage, current_size)[1], info_after[c].downsample[1]),
                        ShrC(NewSize(stage, current_size)[2], info_after[c].downsample[2])>>)
        ELSE bufs[c]]

\* What the stages of the model compute: a stage adds StageGain to the first
\* sample of the buffer it reads and writes the sum to every sample of its
\* output, so that what it read shows in what it wrote.
StageGain == 100

\* run_stage_on, handed the buffers of the channels the stage uses: an Input
\* stage only reads, the other kinds write every sample of their outputs.
StageOutputs(stage, in_bufs, out_bufs) ==
    [c \in DOMAIN out_bufs |->
        IF uses_channel(stage, c) /\ stage.kind # "Input"
        THEN [out_bufs[c] EXCEPT
                 !.data = [p \in DOMAIN out_bufs[c].data |->
                              in_bufs[c].data[<<0, 0>>] + StageGain]]
        ELSE out_bufs[c]]

\* current_buffers at the head of the loop's iterations 1 .. n + 1, for a
\* render whose first n stages ran: the clone of the input buffers, then each
\* stage's output_buffers.
RECURSIVE BufferTrace(_, _, _, _, _)
BufferTrace(stgs, ci, bufs, current_size, n) ==
    IF n = 0 THEN <<bufs>>
    ELSE LET before == BufferTrace(stgs, ci, bufs, current_size, n - 1)
             cur    == before[n]
         IN  Append(before,
                    StageOutputs(stgs[n], cur,
                                 Reallocated(stgs[n], cur, current_size, ci[n + 1])))

\* Mutation of InputBuffersAfter: the stages work on the pipeline's own buffers,
\* which the chain leaves with the sizes of its last outputs.
InputBuffersReused(bufs, current_sizes) ==
    [c \in DOMAIN bufs |->
        IF current_sizes[c] = bufs[c].size THEN bufs[c] ELSE NewImage(current_sizes[c])]

\* self.input_buffers after do_render: the stages are handed current_buffers,
\* which starts as clone_images(&self.input_buffers), and copies of it;
\* self.input_buffers itself is only read.
InputBuffersAfter(bufs, current_sizes) == bufs

\* do_render as a function: [status, completed, ran, sizes]. oom_at = 0 makes
\* the copy of the input buffers fail, -1 lets every allocation succeed.
RenderOutcome(stgs, ci, bufs, size, grp, completed, oom_at) ==
    LET input_sizes == [c \in DOMAIN bufs |-> bufs[c].size]
    IN  IF NoNewPass(ReadyPasses(grp), completed)
        THEN [status |-> "Ok", completed |-> completed, ran |-> 0, sizes |-> input_sizes]
        ELSE IF oom_at = 0
        THEN [status |-> "OutOfMemory", completed |-> ReadyPasses(grp), ran |-> 0,
              sizes |-> input_sizes]
        ELSE LET run == RunStages(stgs, ci, 1, input_sizes, size, oom_at, 0)
             IN  [status |-> run.status, completed |-> ReadyPasses(grp), ran |-> run.ran,
                  sizes |-> run.sizes]

-----------------------------------------------------------------------------
(* The runtime as a state machine. A fill_input call is the loop over its  *)
(* list, one group_info per step (FillGroup), and then do_render (Render), *)
(* which ends the call; a failing group_info ends it without do_render.    *)
(* phase = "filling" inside the loop, "built" between calls.               *)

\* The pipelines the runtime is started with: the channels and the stages.
RunPipelines ==
    {[num_channels |-> 1,
      stages |-> <<Stage("Input", "U8", "U8", <<0, 0>>, {0})>>],
     [num_channels |-> 2,
      stages |-> <<Stage("InOut", "U8", "U8", <<1, 1>>, {1}),
                   Stage("InPlace", "U8", "U8", <<0, 0>>, {0, 1}),
                   Stage("Extend", "U8", "U8", <<0, 0>>, {0, 1}),
                   Stage("Input", "U8", "U8", <<0, 0>>, {0})>>]}

\* The add_stage calls of a pipeline, from the builder's first row on:
\* [ok, channel_info, can_shift].
RECURSIVE AddStages(_, _)
AddStages(b, stgs) ==
    IF stgs = <<>> \/ ~b.ok THEN b
    ELSE LET current_info == b.channel_info[Len(b.channel_info)]
         IN  AddStages(
                 [ok |-> AddStageResult(current_info, b.can_shift, Head(stgs)) = Ok,
                  channel_info |-> Append(b.channel_info, AfterInfo(current_info, Head(stgs))),
                  can_shift |-> CanShiftAfter(b.can_shift, Head(stgs))],
                 Tail(stgs))

\* The images the runtime is started with: the largest ones in groups of the
\* largest size, and the smallest ones in groups half as large.
RunConfigs ==
    {[size |-> sz, L |-> MaxL] : sz \in {<<MaxDim - 1, 1>>, <<MaxDim - 2, 2>>}}
    \cup {[size |-> sz, L |-> MaxL - 1] : sz \in {<<1, 1>>, <<2, 1>>, <<1, 2>>}}

\* The pairs of sample types a fill_input_two_types call is instantiated with.
CallTypes == {<<"U8", "F32">>, <<"F32", "F32">>}

\* The state build() leaves: new, add_stage of each stage, build, all Ok.
StartRun(pl, cfg) ==
        LET w == cfg.size[1]
            h == cfg.size[2]
            L == cfg.L
            grid  == GroupGrid(<<w, h>>, L)
            added == AddStages([ok |-> TRUE,
                                channel_info |-> <<[c \in Channels(pl.num_channels) |->
                                                       ChannelInfo(NoneTy, <<0, 0>>)]>>,
                                can_shift |-> TRUE], pl.stages)
            built == BuildOutcome(added.channel_info, pl.stages, <<w, h>>, FALSE)
        IN  /\ added.ok
            /\ built.result = Ok
            /\ phase = "built"
            /\ result = Ok
            /\ channel_info = built.channel_info
            /\ input_size = <<w, h>>
            /\ log_group_size = L
            /\ xgroups = grid[1]
            /\ stages = pl.stages
            /\ group_ready_passes = [g \in 0 .. grid[1] * grid[2] - 1 |-> 0]
            /\ completed_passes = 0
            /\ input_buffers = built.input_buffers
            /\ can_shift = added.can_shift
            /\ renders = 0
            /\ fills = [g \in 0 .. grid[1] * grid[2] - 1 |-> 0]
            /\ last_call = [op |-> "build"]
            /\ mirror = Idle /\ exec = Idle /\ concat = Idle /\ log2 = Idle

InitRun == \E pl \in RunPipelines, cfg \in RunConfigs : StartRun(pl, cfg)

\* RenderPipeline::num_groups
num_groups(xg, size, L) == xg * ShrC(size[2], L)

\* Mutation of PassesAfterFill: the entry's count replaces the group's counter.
PassesReplaced(ready, group_id, num_filled_passes) ==
    [ready EXCEPT ![group_id] = num_filled_passes]

\* Mutation of PassesAfterFill: the passes of the entry are counted twice.
PassesCountedTwice(ready, group_id, num_filled_passes) ==
    [ready EXCEPT ![group_id] = @ + 2 * num_filled_passes]

\* self.group_ready_passes[group_info.group_id] += group_info.num_filled_passes
PassesAfterFill(ready, group_id, num_filled_passes) ==
    [ready EXCEPT ![group_id] = @ + num_filled_passes]

\* The call has not returned yet.
Pending == [kind |-> "Pending", c |-> -1, expected |-> NoneTy, actual |-> NoneTy]

\* One iteration of `for group_info in group_fill_info`.
\* fail_at: the channel whose tile cannot be allocated, -1 when every
\* allocation succeeds, -2 when they do and the first fill function invoked
\* returns an error.
FillGroup ==
    \E group_id \in DOMAIN group_ready_passes, num_filled_passes \in 0 .. MaxPasses,
       types \in (IF phase = "filling" THEN {last_call.types} ELSE CallTypes),
       fail_at \in {-2, -1} \cup DOMAIN channel_info[1] :
        LET goffset == GOffset(GroupOf(group_id, xgroups), log_group_size)
            gsize   == GSize(input_size, goffset, log_group_size)
            info0   == channel_info[1]
            problem == TileProblem(info0, goffset, types, fail_at)
            alloc   == AllocateTiles(info0, gsize, types, 0,
                                     [images1 |-> <<>>, images2 |-> <<>>, ch_idx |-> <<>>])
            filled  == [alloc EXCEPT !.images1 = FillFn(@, GroupData(group_id)),
                                     !.images2 = FillFn(@, GroupData(group_id))]
            done    == problem = "ok" /\ fail_at # -2
            fits    == \A c \in DOMAIN input_buffers :
                           TileFits(input_buffers[c], TileOffset(goffset, info0[c].downsample),
                                    TileSize(gsize, info0[c].downsample))
        IN  /\ phase \in {"built", "filling"}
            /\ group_ready_passes[group_id] + num_filled_passes <= MaxPasses
            /\ last_call' = [op |-> "fill_input", types |-> types, group_id |-> group_id,
                             num_filled_passes |-> num_filled_passes,
                             goffset |-> goffset, gsize |-> gsize,
                             tiles |-> [c \in DOMAIN info0 |->
                                           TileSize(gsize, info0[c].downsample)],
                             images1 |-> IF done THEN [i \in DOMAIN alloc.images1 |->
                                                          alloc.images1[i].chan]
                                         ELSE <<>>,
                             images2 |-> IF done THEN [i \in DOMAIN alloc.images2 |->
                                                          alloc.images2[i].chan]
                                         ELSE <<>>,
                             fill_fns |-> IF done THEN FillCalls(alloc) ELSE <<>>,
                             copied |-> IF done
                                        THEN [c \in DOMAIN info0 |->
                                                 CopiedTile(info0, types, filled, c).chan]
                                        ELSE <<>>]
            /\ IF problem \notin {"ok", "OutOfMemory"}
               THEN /\ phase' = "panicked"
                    /\ result' = Panic(problem)
                    /\ UNCHANGED <<input_buffers, group_ready_passes, fills>>
               ELSE IF problem = "OutOfMemory" \/ fail_at = -2
               THEN /\ phase' = "built"
                    /\ result' = Err(IF fail_at = -2 THEN "FillError" ELSE "OutOfMemory")
                    /\ UNCHANGED <<input_buffers, group_ready_passes, fills>>
               ELSE IF ~fits
               THEN /\ phase' = "panicked"
                    /\ result' = Panic("panic_index_out_of_bounds")
                    /\ UNCHANGED <<input_buffers, group_ready_passes, fills>>
               ELSE /\ phase' = "filling"
                    /\ input_buffers' = CopyFilled(input_buffers, info0, goffset, types,
                                                   filled)
                    /\ group_ready_passes' =
                           PassesAfterFill(group_ready_passes, group_id, num_filled_passes)
                    /\ fills' = [fills EXCEPT ![group_id] = Min(@ + 1, 2)]
                    /\ result' = Pending
            /\ UNCHANGED <<channel_info, input_size, log_group_size, xgroups, stages,
                           completed_passes, can_shift, renders>>
            /\ UNCHANGED unit_vars

\* `self.do_render()` at the end of fill_input (of an empty list when the
\* pipeline is between calls), and the return of the call.
Render ==
    \E oom_at \in -1 .. Len(stages) :
        LET out == RenderOutcome(stages, channel_info, input_buffers, input_size,
                                 group_ready_passes, completed_passes, oom_at)
        IN  /\ phase \in {"built", "filling"}
            /\ completed_passes' = out.completed
            /\ renders' = IF out.status = "Ok" /\ out.ran > 0 THEN renders + 1 ELSE renders
            /\ result' = IF out.status = "Ok" THEN Ok
                         ELSE IF out.status = "OutOfMemory" THEN Err("OutOfMemory")
                         ELSE Panic(out.status)
            /\ phase' = IF out.status \in {"Ok", "OutOfMemory"} THEN "built" ELSE "panicked"
            /\ last_call' = [op |-> "do_render", ran |-> out.ran,
                             buffers |-> IF out.ran = 0 THEN <<>>
                                         ELSE BufferTrace(stages, channel_info, input_buffers,
                                                          input_size, out.ran)]
            /\ input_buffers' = InputBuffersAfter(input_buffers, out.sizes)
            /\ UNCHANGED <<channel_info, input_size, log_group_size, xgroups, stages,
                           group_ready_passes, can_shift, fills>>
            /\ UNCHANGED unit_vars

NextRun == FillGroup \/ Render

SpecRun == InitRun /\ [][NextRun]_vars

\* Pipelines whose channels have different input types: the converting stage
\* gives channels 1 and 2 the type U8 and leaves channel 0 to the F32 stage.
FillPipelines ==
    {[num_channels |-> 1,
      stages |-> <<Stage("Input", "U8", "U8", <<0, 0>>, {0})>>],
     [num_channels |-> 3,
      stages |-> <<Stage("InOut", "U8", "F32", <<0, 0>>, {1, 2}),
                   Stage("Input", "F32", "F32", <<0, 0>>, {0, 1, 2})>>]}

\* Images of one group and of two groups.
FillConfigs ==
    {[size |-> <<1, 1>>, L |-> MaxL - 1], [size |-> <<2, 1>>, L |-> MaxL - 1]}

InitFill == \E pl \in FillPipelines, cfg \in FillConfigs : StartRun(pl, cfg)

SpecFill == InitFill /\ [][NextRun]_vars

-----------------------------------------------------------------------------
(* The mirror closure of RenderPipelineInOutStage::run_stage_on, one       *)
(* iteration of its while loop per step. v and size are i64; the closure   *)
(* is called with v = coordinate + offset, |offset| <= BORDER <= 255, and  *)
(* size = an axis length of an allocated image.                            *)

\* Coordinates handed to the closure lie in -MaxCoord .. MaxCoord.
MaxCoord == 12
\* Axis lengths handed to the closure lie in 1 .. MaxAxis.
MaxAxis == 5

\* Mutation of MirrorLow: reflection about sample 0 instead of its left edge.
MirrorLowHalfSample(v) == IF v < 0 THEN -v ELSE v

\* if v < 0 { v = -v - 1; }
MirrorLow(v) == IF v < 0 THEN -v - 1 ELSE v

\* Mutation of MirrorHigh: the reflected coordinate is one too large.
MirrorHighOffByOne(v, size) == IF v >= size THEN size + (size - v) ELSE v

\* if v >= size { v = size + (size - v) - 1; }
MirrorHigh(v, size) == IF v >= size THEN size + (size - v) - 1 ELSE v

\* `while v < 0 || v >= size`
MirrorLoops(v, size) == v < 0 \/ v >= size

InitMirror ==
    /\ New(MaxChannels, <<MaxDim, MaxDim - 1>>, MaxL)
    /\ exec = Idle /\ concat = Idle /\ log2 = Idle
    /\ \E v \in -MaxCoord .. MaxCoord, size \in 1 .. MaxAxis :
           mirror = [pc |-> "while", v0 |-> v, size |-> size, v |-> v, iterations |-> 0]

\* One iteration of the while loop: both ifs, in order.
MirrorIterate ==
    /\ mirror.pc = "while"
    /\ MirrorLoops(mirror.v, mirror.size)
    /\ mirror' = [mirror EXCEPT !.v = MirrorHigh(MirrorLow(mirror.v), mirror.size),
                                !.iterations = Min(@ + 1, MaxCoord)]
    /\ UNCHANGED <<pipeline_vars, exec, concat, log2>>

\* The loop condition fails: `v as usize` is returned.
MirrorReturn ==
    /\ mirror.pc = "while"
    /\ ~MirrorLoops(mirror.v, mirror.size)
    /\ mirror' = [mirror EXCEPT !.pc = "returned"]
    /\ UNCHANGED <<pipeline_vars, exec, concat, log2>>

NextMirror == MirrorIterate \/ MirrorReturn

\* The closure runs to its end once called: nothing suspends it.
SpecMirror == InitMirror /\ [][NextMirror]_vars /\ WF_vars(NextMirror)

\* The specification's reflection: u = v mod 2S in [0, 2S); u if u < S, else 2S - 1 - u.
Reflect(v, size) ==
    LET u == v % (2 * size)
    IN  IF u < size THEN u ELSE 2 * size - 1 - u

\* The table of the specification for S = 4.
MirrorTable ==
    (-1 :> 0) @@ (-2 :> 1) @@ (-3 :> 2) @@ (-4 :> 3) @@ (-5 :> 3) @@ (0 :> 0) @@ (1 :> 1)
    @@ (2 :> 2) @@ (3 :> 3) @@ (4 :> 3) @@ (5 :> 2) @@ (6 :> 1) @@ (7 :> 0)

(* C11: for every coordinate v and every axis length S > 0 the mirror      *)
(* closure terminates and returns a value in [0, S); it returns v itself   *)
(* when 0 <= v < S.                                                        *)
C11_MirrorTerminatesInRange ==
    /\ <>(mirror.pc = "returned")
    /\ [](mirror.pc = "returned" =>
              /\ mirror.v \in 0 .. mirror.size - 1
              /\ mirror.v0 \in 0 .. mirror.size - 1 => mirror.v = mirror.v0)

\* A coordinate more than twice the axis length beyond the end has been
\* brought into range, by more than one iteration.
C11_Witness ==
    /\ mirror.pc = "returned"
    /\ mirror.v0 >= 3 * mirror.size
    /\ mirror.iterations >= 2
    /\ mirror.v \in 0 .. mirror.size - 1

(* C12: the closure returns the whole-sample symmetric reflection of v,    *)
(* u = v mod 2S in [0, 2S) mapped to u when u < S and to 2S - 1 - u        *)
(* otherwise; for S = 4 the inputs -1,-2,-3,-4,-5,0,1,2,3,4,5,6,7 map to   *)
(* 0,1,2,3,3,0,1,2,3,3,2,1,0.                                              *)
C12_MirrorIsReflection ==
    mirror.pc = "returned" =>
        /\ mirror.v = Reflect(mirror.v0, mirror.size)
        /\ (mirror.size = 4 /\ mirror.v0 \in DOMAIN MirrorTable) =>
               mirror.v = MirrorTable[mirror.v0]

\* The entry -5 -> 3 of the table: a negative coordinate reflected twice.
C12_Witness ==
    /\ mirror.pc = "returned"
    /\ mirror.size = 4
    /\ mirror.v0 = -5
    /\ mirror.v = 3

-----------------------------------------------------------------------------
(* The stage executors (RenderPipelineRunStage::run_stage_on). A call is   *)
(* modelled whole: the loops over rows and chunks, the conversions, the    *)
(* calls of process_row_chunk and the copies into the output buffers.      *)
(* Every channel a stage uses goes through the same loops, so the          *)
(* operators below work on the buffer of one channel and the actions apply *)
(* them to each.                                                           *)

\* chunk_size of a call lies in 1 .. MaxChunk.
MaxChunk == 4
\* Images handed to an executor are 1 .. MaxAxis wide and 1 .. MaxRows high.
MaxRows == 2

\* ImageDataType::from_f64 for u8 on the integral values of the model:
\* out-of-range values are clamped.
from_f64(v) == IF v < 0 THEN 0 ELSE IF v > U8Max THEN U8Max ELSE v

Pixels(size) == (0 .. size[1] - 1) \X (0 .. size[2] - 1)

\* An image of the size whose samples all differ, channel by channel.
TestImage(size, c) ==
    [size |-> size, data |-> [p \in Pixels(size) |-> 100 * (c - 1) + 1 + p[1] + size[1] * p[2]]]

\* How often each sample of an image of the size has been touched: not at all.
NoTouch(size) == [p \in Pixels(size) |-> 0]

\* (lo..hi).step_by(chunk_size), as a sequence.
RECURSIVE StepBy(_, _, _)
StepBy(lo, hi, chunk_size) ==
    IF lo >= hi THEN <<>> ELSE <<lo>> \o StepBy(lo + chunk_size, hi, chunk_size)

\* lo..hi (hi excluded), as a sequence.
Range(lo, hi) == [i \in 1 .. hi - lo |-> lo + i - 1]

\* Mutation of ChunkSize: every chunk is chunk_size wide.
ChunkSizeUnclipped(width, x, chunk_size) == chunk_size

\* xsize = size.0.min(x + chunk_size) - x
ChunkSize(width, x, chunk_size) == Min(width, x + chunk_size) - x

\* The chunks of a row: `for x in (0..size.0).step_by(chunk_size)` with its xsize.
RowChunks(width, chunk_size) ==
    LET xs == StepBy(0, width, chunk_size)
    IN  [i \in DOMAIN xs |-> [x |-> xs[i], xsize |-> ChunkSize(width, xs[i], chunk_size)]]

\* The (x, y, xsize) of the loop `for y in ys { for (x, xsize) in chunks {` in order.
RECURSIVE RowsOfChunks(_, _)
RowsOfChunks(ys, chunks) ==
    IF ys = <<>> THEN <<>>
    ELSE [i \in DOMAIN chunks |-> [x |-> chunks[i].x, y |-> Head(ys), xsize |-> chunks[i].xsize]]
         \o RowsOfChunks(Tail(ys), chunks)

\* Whether the xsize samples at (x, y) lie inside an image of the size.
ChunkInside(size, call) ==
    call.x + call.xsize <= size[1] /\ call.y < size[2] /\ call.xsize >= 0

\* The scratch row of a chunk: buffer[c][ix] = T::from_f64(input.row(y)[x + ix]).
ReadChunk(input, call) ==
    [ix \in 0 .. call.xsize - 1 |-> from_f64(input.data[<<call.x + ix, call.y>>])]

\* The samples of an image after row[0 .. xsize) has been stored at (x, y).
StoreChunk(data, call, row) ==
    [p \in DOMAIN data |->
        IF p[2] = call.y /\ p[1] - call.x \in 0 .. call.xsize - 1
        THEN row[p[1] - call.x] ELSE data[p]]

\* The touch counts after the xsize samples at (x, y) have been touched once more.
TouchChunk(touched, call) ==
    [p \in DOMAIN touched |->
        IF p[2] = call.y /\ p[1] - call.x \in 0 .. call.xsize - 1
        THEN touched[p] + 1 ELSE touched[p]]

\* Mutation of SaveChunk: the row is stored at the start of row y.
SaveChunkAtRowStart(st, call, row) ==
    IF st.status # "Ok" THEN st
    ELSE [st EXCEPT !.buf.data = [p \in DOMAIN @ |->
                                     IF p[2] = call.y /\ p[1] \in 0 .. call.xsize - 1
                                     THEN row[p[1]] ELSE @[p]],
                    !.written = [p \in DOMAIN @ |->
                                    IF p[2] = call.y /\ p[1] \in 0 .. call.xsize - 1
                                    THEN @[p] + 1 ELSE @[p]]]

\* SaveStage::process_row_chunk(position, xsize, row): `rect(position, (xsize, 1))`
\* fails outside the Save buffer, else row[0][..xsize] is copied into it.
\* st = [buf, written, status].
SaveChunk(st, call, row) ==
    IF st.status # "Ok" THEN st
    ELSE IF ~ChunkInside(st.buf.size, call)
    THEN [st EXCEPT !.status = "panic_mismatch_in_image_size"]
    ELSE [st EXCEPT !.buf.data = StoreChunk(@, call, row),
                    !.written = TouchChunk(@, call)]

\* RenderPipelineInputStage::run_stage_on for a Save stage, from the call-th
\* chunk on; indexing a row beyond its end panics.
RECURSIVE InputStageRun(_, _, _, _)
InputStageRun(input, calls, call, st) ==
    IF call > Len(calls) \/ st.status # "Ok" THEN st
    ELSE IF ~ChunkInside(input.size, calls[call])
    THEN [st EXCEPT !.status = "panic_index_out_of_bounds"]
    ELSE InputStageRun(input, calls, call + 1,
                       SaveChunk(st, calls[call], ReadChunk(input, calls[call])))

\* What an InPlace stage makes of the samples of its rows.
InPlaceFns == {"untouched", "negative"}
process_row_chunk(fn, row) ==
    IF fn = "untouched" THEN row ELSE [ix \in DOMAIN row |-> U8Max - row[ix]]

\* RenderPipelineInPlaceStage::run_stage_on from the call-th chunk on; indexing
\* a row beyond its end panics. st = [out, read, written, status].
RECURSIVE InPlaceStageRun(_, _, _, _, _)
InPlaceStageRun(input, fn, calls, call, st) ==
    IF call > Len(calls) \/ st.status # "Ok" THEN st
    ELSE IF ~ChunkInside(input.size, calls[call]) \/ ~ChunkInside(st.out.size, calls[call])
    THEN [st EXCEPT !.status = "panic_index_out_of_bounds"]
    ELSE LET row == process_row_chunk(fn, ReadChunk(input, calls[call]))
         IN  InPlaceStageRun(input, fn, calls, call + 1,
                 [out |-> [st.out EXCEPT !.data =
                              StoreChunk(@, calls[call],
                                         [ix \in DOMAIN row |-> to_f64(row[ix])])],
                  read |-> TouchChunk(st.read, calls[call]),
                  written |-> TouchChunk(st.written, calls[call]),
                  status |-> "Ok"])

\* The sizes of the images handed to the executors.
ExecSizes == (1 .. MaxAxis) \X (1 .. MaxRows)

\* A call of run_stage_on about to run.
ExecCall(kind, chunk_size, stage, input, output) ==
    [pc |-> "call", kind |-> kind, chunk_size |-> chunk_size, stage |-> stage,
     input |-> input, output |-> output]

\* The tile a fill function that decodes the source image hands back: the
\* samples of the source at the tile's place.
SourceTile(src, goffset, gsize) ==
    [size |-> gsize,
     data |-> [p \in Pixels(gsize) |-> src.data[<<goffset[1] + p[1], goffset[2] + p[2]>>]]]

\* The input buffer of a one-channel pipeline without downsampling after
\* fill_input of the groups in the order given, each with its tile of the source.
RECURSIVE FilledFromSource(_, _, _, _)
FilledFromSource(buf, src, L, groups) ==
    IF groups = <<>> THEN buf
    ELSE LET goffset == GOffset(GroupOf(Head(groups), GroupGrid(src.size, L)[1]), L)
             gsize   == GSize(src.size, goffset, L)
         IN  FilledFromSource(WriteTile(buf, goffset, SourceTile(src, goffset, gsize)),
                              src, L, Tail(groups))

\* The orders the groups 0 .. n - 1 are filled in: ascending and descending.
GroupOrders(n) == {Range(0, n), [i \in 1 .. n |-> n - i]}

\* The Save stage of a one-channel pipeline whose groups have all been filled
\* from the source image; the Save buffer has the size of the image.
InitInputStage ==
    \E size \in ExecSizes, chunk_size \in 1 .. MaxChunk, L \in 0 .. MaxL :
        \E order \in GroupOrders(GroupGrid(size, L)[1] * GroupGrid(size, L)[2]) :
            exec = [ExecCall("Input", chunk_size, [save |-> NewImage(size)],
                             <<FilledFromSource(NewImage(size), TestImage(size, 1), L, order)>>,
                             <<NewImage(size)>>)
                    EXCEPT !.kind = "Input"]
                   @@ [source |-> TestImage(size, 1), order |-> order]

\* An InPlace stage over one or two channels; the output buffers are the copies
\* do_render makes of the input, or buffers of the same size holding other data.
InitInPlaceStage ==
    \E size \in ExecSizes, chunk_size \in 1 .. MaxChunk, fn \in InPlaceFns,
       numc \in 1 .. 2, copied \in BOOLEAN :
        exec = ExecCall("InPlace", chunk_size, [fn |-> fn],
                        [c \in 1 .. numc |-> TestImage(size, c)],
                        [c \in 1 .. numc |->
                            IF copied THEN TestImage(size, c) ELSE NewImage(size)])

\* RenderPipelineInputStage::run_stage_on(stage, chunk_size, input_buffers, _)
RunInputStage ==
    /\ exec.pc = "call" /\ exec.kind = "Input"
    /\ LET size  == exec.input[1].size
           calls == RowsOfChunks(Range(0, size[2]), RowChunks(size[1], exec.chunk_size))
           run   == InputStageRun(exec.input[1], calls, 1,
                                  [buf |-> exec.stage.save,
                                   written |-> NoTouch(exec.stage.save.size),
                                   status |-> "Ok"])
       IN  exec' = [pc |-> IF run.status = "Ok" THEN "returned" ELSE "panicked",
                    kind |-> exec.kind, chunk_size |-> exec.chunk_size,
                    stage |-> [save |-> run.buf],
                    input |-> exec.input, output |-> exec.output,
                    written |-> <<run.written>>, calls |-> calls,
                    source |-> exec.source, order |-> exec.order]
    /\ UNCHANGED <<pipeline_vars, mirror, concat, log2>>

\* RenderPipelineInPlaceStage::run_stage_on(stage, chunk_size, input_buffers,
\* output_buffers)
RunInPlaceStage ==
    /\ exec.pc = "call" /\ exec.kind = "InPlace"
    /\ LET size  == exec.input[1].size
           calls == RowsOfChunks(Range(0, size[2]), RowChunks(size[1], exec.chunk_size))
           run   == [c \in DOMAIN exec.input |->
                        InPlaceStageRun(exec.input[c], exec.stage.fn, calls, 1,
                                        [out |-> exec.output[c], read |-> NoTouch(size),
                                         written |-> NoTouch(size), status |-> "Ok"])]
       IN  exec' = [pc |-> IF \A c \in DOMAIN run : run[c].status = "Ok"
                           THEN "returned" ELSE "panicked",
                    kind |-> exec.kind, chunk_size |-> exec.chunk_size,
                    stage |-> exec.stage, input |-> exec.input,
                    output |-> [c \in DOMAIN run |-> run[c].out],
                    read |-> [c \in DOMAIN run |-> run[c].read],
                    written |-> [c \in DOMAIN run |-> run[c].written],
                    calls |-> calls]
    /\ UNCHANGED <<pipeline_vars, mirror, concat, log2>>

\* The mirror closure, run to its end.
RECURSIVE Mirror(_, _)
Mirror(v, size) ==
    IF MirrorLoops(v, size) THEN Mirror(MirrorHigh(MirrorLow(v), size), size) ELSE v

\* The window of a chunk: buffer_in[iy + border_y][ix + border_x], for
\* iy in -border_y..=border_y and ix in -border_x..xsize + border_x.
Window(input, call, border) ==
    [q \in (0 .. 2 * border[2]) \X (0 .. call.xsize + 2 * border[1] - 1) |->
        from_f64(input.data[<<Mirror(call.x + q[2] - border[1], input.size[1]),
                              Mirror(call.y + q[1] - border[2], input.size[2])>>])]

\* The rows a nearest-neighbour stage writes into buffer_out: output sample
\* (iy, ix) is the sample of the chunk it lies over, the borders being ignored.
DuplicatedRows(window, call, border, shift) ==
    [q \in (0 .. 2^shift[2] - 1) \X (0 .. Shl(call.xsize, shift[1]) - 1) |->
        window[<<border[2], border[1] + Shr(q[2], shift[1])>>]]

\* Mutation of OutputPosition: the rows are stored at the chunk's own position.
OutputPositionUnshifted(call, shift) == <<call.x, call.y>>

\* ((x << SHIFT_X), (y << SHIFT_Y)): where the rows of a chunk are stored.
OutputPosition(call, shift) == <<Shl(call.x, shift[1]), Shl(call.y, shift[2])>>

\* The output pixels the rows of a chunk are stored at.
OutputRect(call, shift) ==
    {<<OutputPosition(call, shift)[1] + ix, OutputPosition(call, shift)[2] + iy>> :
        ix \in 0 .. Shl(call.xsize, shift[1]) - 1, iy \in 0 .. 2^shift[2] - 1}

\* RenderPipelineInOutStage::run_stage_on from the call-th chunk on.
\* st = [out, written, windows, status].
RECURSIVE InOutStageRun(_, _, _, _, _, _)
InOutStageRun(input, border, shift, calls, call, st) ==
    IF call > Len(calls) \/ st.status # "Ok" THEN st
    ELSE LET cl     == calls[call]
             window == Window(input, cl, border)
             rows   == DuplicatedRows(window, cl, border, shift)
             pos    == OutputPosition(cl, shift)
             rect   == OutputRect(cl, shift)
         IN  IF \E p \in rect : p \notin DOMAIN st.out.data
             THEN [st EXCEPT !.status = "panic_index_out_of_bounds"]
             ELSE InOutStageRun(input, border, shift, calls, call + 1,
                      [out |-> [st.out EXCEPT !.data =
                                   [p \in DOMAIN st.out.data |->
                                       IF p \in rect
                                       THEN to_f64(rows[<<p[2] - pos[2], p[1] - pos[1]>>])
                                       ELSE st.out.data[p]]],
                       written |-> [p \in DOMAIN st.written |->
                                       IF p \in rect THEN st.written[p] + 1
                                       ELSE st.written[p]],
                       windows |-> Append(st.windows, window),
                       status |-> "Ok"])

\* The BORDER and SHIFT constants of the InOut stages the model runs.
InOutBorders == {<<0, 0>>, <<1, 1>>, <<2, 0>>}
InOutShifts == {<<0, 0>>, <<1, 1>>, <<1, 0>>}

\* An InOut stage over one channel; the output buffer is the one do_render
\* allocates, of the input's size shifted left.
InitInOutStage ==
    \E size \in ExecSizes, chunk_size \in 1 .. MaxChunk, border \in InOutBorders,
       shift \in InOutShifts :
        exec = ExecCall("InOut", chunk_size, [border |-> border, shift |-> shift],
                        <<TestImage(size, 1)>>,
                        <<NewImage(<<Shl(size[1], shift[1]), Shl(size[2], shift[2])>>)>>)

\* RenderPipelineInOutStage::run_stage_on(stage, chunk_size, input_buffers,
\* output_buffers)
RunInOutStage ==
    /\ exec.pc = "call" /\ exec.kind = "InOut"
    /\ LET size  == exec.input[1].size
           calls == RowsOfChunks(Range(0, size[2]), RowChunks(size[1], exec.chunk_size))
           run   == InOutStageRun(exec.input[1], exec.stage.border, exec.stage.shift, calls, 1,
                                  [out |-> exec.output[1],
                                   written |-> NoTouch(exec.output[1].size),
                                   windows |-> <<>>, status |-> "Ok"])
       IN  exec' = [pc |-> IF run.status = "Ok" THEN "returned" ELSE "panicked",
                    kind |-> exec.kind, chunk_size |-> exec.chunk_size,
                    stage |-> exec.stage, input |-> exec.input,
                    output |-> <<run.out>>, written |-> <<run.written>>,
                    windows |-> run.windows, calls |-> calls]
    /\ UNCHANGED <<pipeline_vars, mirror, concat, log2>>

\* "First, copy the data in the middle": the rows of the input stored at origin.
CopyMiddle(out, input, origin) ==
    [out EXCEPT !.data =
        [p \in DOMAIN out.data |->
            IF <<p[1] - origin[1], p[2] - origin[2]>> \in DOMAIN input.data
            THEN input.data[<<p[1] - origin[1], p[2] - origin[2]>>]
            ELSE out.data[p]]]

\* Whether row(origin.1 + y)[origin.0..origin.0 + in_row.len()] exists for every y.
MiddleFits(out_size, in_size, origin) ==
    origin[1] + in_size[1] <= out_size[1] /\ origin[2] + in_size[2] <= out_size[2]

\* "Fill in rows above and below the original data": the rows and their chunks.
AboveBelowCalls(out_size, in_size, origin, chunk_size) ==
    RowsOfChunks(Range(0, origin[2]) \o Range(origin[2] + in_size[2], out_size[2]),
                 RowChunks(out_size[1], chunk_size))

\* The chunks to the left of the original data, as the iterator yields them:
\* (0..output_size.0).step_by(chunk_size).map(|x| (x, origin.0.min(x + chunk_size) - x)).
\* A negative xsize stands for the usize subtraction that underflows.
LeftChunks(out_size, origin, chunk_size) ==
    LET xs == StepBy(0, out_size[1], chunk_size)
    IN  [i \in DOMAIN xs |-> [x |-> xs[i], xsize |-> Min(origin[1], xs[i] + chunk_size) - xs[i]]]

\* The chunks to the right of the original data:
\* (origin.0 + input_size.0..output_size.0).step_by(chunk_size)
\*     .map(|x| (x, output_size.0.min(x + chunk_size) - x)).
RightChunks(out_size, in_size, origin, chunk_size) ==
    LET xs == StepBy(origin[1] + in_size[1], out_size[1], chunk_size)
    IN  [i \in DOMAIN xs |-> [x |-> xs[i], xsize |-> ChunkSize(out_size[1], xs[i], chunk_size)]]

\* "Fill in left and right of the original data": the rows and their chunks.
SideCalls(out_size, in_size, origin, chunk_size) ==
    RowsOfChunks(Range(origin[2], origin[2] + in_size[2]),
                 LeftChunks(out_size, origin, chunk_size)
                 \o RightChunks(out_size, in_size, origin, chunk_size))

\* The chunks of RenderPipelineExtendStage::run_stage_on from the call-th on:
\* the stage sets row[0 .. xsize) to its fill value and the row is stored.
\* st = [out, written, made, status], made being the calls of process_row_chunk.
RECURSIVE ExtendStageRun(_, _, _, _)
ExtendStageRun(fill, calls, call, st) ==
    IF call > Len(calls) \/ st.status # "Ok" THEN st
    ELSE IF calls[call].xsize < 0
    THEN [st EXCEPT !.status = "panic_subtract_with_overflow"]
    ELSE IF ~ChunkInside(st.out.size, calls[call])
    THEN [st EXCEPT !.status = "panic_index_out_of_bounds"]
    ELSE ExtendStageRun(fill, calls, call + 1,
             [out |-> [st.out EXCEPT !.data =
                          StoreChunk(@, calls[call],
                                     [ix \in 0 .. calls[call].xsize - 1 |-> to_f64(fill)])],
              written |-> TouchChunk(st.written, calls[call]),
              made |-> Append(st.made, calls[call]),
              status |-> "Ok"])

\* An Extend stage over one channel: the original data at origin, up to one more
\* column and row after it; the output buffer is the one do_render allocates.
InitExtendStage ==
    \E size \in ExecSizes, chunk_size \in 1 .. MaxChunk,
       origin \in (0 .. 1) \X (0 .. 1), after \in (0 .. 1) \X (0 .. 1) :
        exec = ExecCall("Extend", chunk_size, [origin |-> origin, fill |-> 0],
                        <<TestImage(size, 1)>>,
                        <<NewImage(<<origin[1] + size[1] + after[1],
                                     origin[2] + size[2] + after[2]>>)>>)

\* RenderPipelineExtendStage::run_stage_on(stage, chunk_size, input_buffers,
\* output_buffers)
RunExtendStage ==
    /\ exec.pc = "call" /\ exec.kind = "Extend"
    /\ LET in_size  == exec.input[1].size
           out_size == exec.output[1].size
           origin   == exec.stage.origin
           calls    == AboveBelowCalls(out_size, in_size, origin, exec.chunk_size)
                       \o SideCalls(out_size, in_size, origin, exec.chunk_size)
           run      == IF ~MiddleFits(out_size, in_size, origin)
                       THEN [out |-> exec.output[1], written |-> NoTouch(out_size),
                             made |-> <<>>, status |-> "panic_index_out_of_bounds"]
                       ELSE ExtendStageRun(exec.stage.fill, calls, 1,
                                [out |-> CopyMiddle(exec.output[1], exec.input[1], origin),
                                 written |-> NoTouch(out_size), made |-> <<>>,
                                 status |-> "Ok"])
       IN  exec' = [pc |-> IF run.status = "Ok" THEN "returned" ELSE "panicked",
                    kind |-> exec.kind, chunk_size |-> exec.chunk_size,
                    stage |-> exec.stage, input |-> exec.input,
                    output |-> <<run.out>>, written |-> <<run.written>>,
                    calls |-> run.made, status |-> run.status]
    /\ UNCHANGED <<pipeline_vars, mirror, concat, log2>>

InitExec ==
    /\ New(MaxChannels, <<MaxDim, MaxDim - 1>>, MaxL)
    /\ mirror = Idle /\ concat = Idle /\ log2 = Idle
    /\ InitInputStage \/ InitInPlaceStage \/ InitInOutStage \/ InitExtendStage

NextExec == RunInputStage \/ RunInPlaceStage \/ RunInOutStage \/ RunExtendStage

SpecExec == InitExec /\ [][NextExec]_vars

-----------------------------------------------------------------------------
(* util::ConcatSlice: a cursor over the concatenation of two byte slices.  *)
(* concat = [pc, slices, ptr, v, last]: the two slices, the cursor, the    *)
(* Vec that fill_vec extends, and the last call with what it returned.     *)

\* Each of the two slices holds 0 .. MaxSlice bytes.
MaxSlice == 3
\* peek is given buffers of 0 .. MaxBuf bytes, fill_vec limits of 0 .. MaxBuf bytes.
MaxBuf == 4

Take(s, n) == SubSeq(s, 1, n)
Drop(s, n) == SubSeq(s, n + 1, Len(s))

\* Option<usize>::None
NoLimit == -1

\* Mutation of remaining_slices: the cursor is not applied inside the second slice.
remaining_slices_from_second(slices, ptr) ==
    IF ptr >= Len(slices[1]) + Len(slices[2]) THEN <<<<>>, <<>>>>
    ELSE IF ptr >= Len(slices[1]) THEN <<<<>>, slices[2]>>
    ELSE <<Drop(slices[1], ptr), slices[2]>>

\* ConcatSlice::remaining_slices; ptr.checked_sub(slice0.len()) is Some when
\* ptr >= slice0.len().
remaining_slices(slices, ptr) ==
    IF ptr >= Len(slices[1]) + Len(slices[2]) THEN <<<<>>, <<>>>>
    ELSE IF ptr >= Len(slices[1]) THEN <<<<>>, Drop(slices[2], ptr - Len(slices[1]))>>
    ELSE <<Drop(slices[1], ptr), slices[2]>>

\* The bytes peek and fill_vec copy: out_bytes bytes of the remaining slices.
CopiedBytes(rem, out_bytes) ==
    IF out_bytes <= Len(rem[1]) THEN Take(rem[1], out_bytes)
    ELSE rem[1] \o Take(rem[2], out_bytes - Len(rem[1]))

\* ConcatSlice::peek(out_buf), for an out_buf of buf_len bytes: the slice returned.
peek(slices, ptr, buf_len) ==
    LET rem == remaining_slices(slices, ptr)
    IN  CopiedBytes(rem, Min(buf_len, Len(rem[1]) + Len(rem[2])))

\* Mutation of fill_out_bytes: the limit is not applied.
fill_out_bytes_unlimited(max_bytes, total_len) == total_len

\* max_bytes.unwrap_or(usize::MAX).min(total_len)
fill_out_bytes(max_bytes, total_len) ==
    IF max_bytes = NoLimit THEN total_len ELSE Min(max_bytes, total_len)

\* ConcatSlice::new(slice0, slice1), with a Vec that may hold bytes already.
InitConcat ==
    /\ New(MaxChannels, <<MaxDim, MaxDim - 1>>, MaxL)
    /\ mirror = Idle /\ exec = Idle /\ log2 = Idle
    /\ \E n0 \in 0 .. MaxSlice, n1 \in 0 .. MaxSlice, v \in {<<>>, <<255>>} :
           concat = [pc |-> "ready",
                     slices |-> <<[i \in 1 .. n0 |-> i - 1], [i \in 1 .. n1 |-> MaxSlice + i - 1]>>,
                     ptr |-> 0, v |-> v, last |-> [op |-> "new"]]

\* reader.peek(&mut buf[..buf_len])
Peek ==
    \E buf_len \in 0 .. MaxBuf :
        /\ concat.pc = "ready"
        /\ concat' = [concat EXCEPT
               !.last = [op |-> "peek", arg |-> buf_len,
                         out |-> peek(concat.slices, concat.ptr, buf_len)]]
        /\ UNCHANGED <<pipeline_vars, mirror, exec, log2>>

\* reader.advance(actual.len()), actual being what the peek before it returned.
Advance ==
    /\ concat.pc = "ready"
    /\ concat.last.op = "peek"
    /\ concat' = [concat EXCEPT !.ptr = @ + Len(concat.last.out),
                                !.last = [op |-> "advance", arg |-> Len(concat.last.out),
                                          out |-> concat.last.out]]
    /\ UNCHANGED <<pipeline_vars, mirror, exec, log2>>

\* reader.fill_vec(max_bytes, &mut v); try_reserve may fail.
FillVec ==
    \E max_bytes \in {NoLimit} \cup (0 .. MaxBuf), reserved \in BOOLEAN :
        LET rem       == remaining_slices(concat.slices, concat.ptr)
            out_bytes == fill_out_bytes(max_bytes, Len(rem[1]) + Len(rem[2]))
        IN  /\ concat.pc = "ready"
            /\ IF ~reserved
               THEN concat' = [concat EXCEPT
                        !.last = [op |-> "fill_vec", arg |-> max_bytes, ok |-> FALSE]]
               ELSE concat' = [concat EXCEPT
                        !.v = @ \o CopiedBytes(rem, out_bytes),
                        !.ptr = @ + out_bytes,
                        !.last = [op |-> "fill_vec", arg |-> max_bytes, ok |-> TRUE,
                                  out |-> out_bytes]]
            /\ UNCHANGED <<pipeline_vars, mirror, exec, log2>>

NextConcat == Peek \/ Advance \/ FillVec

SpecConcat == InitConcat /\ [][NextConcat]_vars

\* a ++ b, and the number of its bytes the cursor has not passed.
Concatenation == concat.slices[1] \o concat.slices[2]
Remaining == IF concat.ptr >= Len(Concatenation) THEN 0 ELSE Len(Concatenation) - concat.ptr

(* C19: peek(buf) returns the min(buf.len(), remaining) bytes of a ++ b    *)
(* that start at the cursor, across the boundary between a and b where     *)
(* needed, and an empty slice once every byte is consumed; peek does not   *)
(* move the cursor, and advance by the length peek returned moves it past  *)
(* exactly those bytes, so that successive peeks deliver successive        *)
(* segments of a ++ b.                                                     *)
C19_PeekAdvanceSegments ==
    /\ [](concat.pc = "ready" => concat.ptr <= Len(Concatenation))
    /\ []((concat.pc = "ready" /\ concat.last.op = "peek") =>
              /\ concat.last.out =
                     SubSeq(Concatenation, concat.ptr + 1,
                            concat.ptr + Min(concat.last.arg, Remaining))
              /\ concat.ptr = Len(Concatenation) => concat.last.out = <<>>)
    /\ [][(concat.pc = "ready" /\ concat'.last.op = "peek") =>
              concat'.ptr = concat.ptr]_vars
    /\ [][(concat.pc = "ready" /\ concat'.last.op = "advance") =>
              /\ concat'.ptr = concat.ptr + Len(concat.last.out)
              /\ SubSeq(Concatenation, concat.ptr + 1, concat'.ptr) = concat.last.out]_vars

\* A peek has returned bytes of both slices, the cursor being inside the first.
C19_Witness ==
    /\ concat.pc = "ready"
    /\ concat.last.op = "peek"
    /\ concat.ptr \in 1 .. Len(concat.slices[1]) - 1
    /\ Len(concat.last.out) > Len(concat.slices[1]) - concat.ptr
    /\ Len(concat.last.out) = concat.last.arg
    /\ concat.last.out[Len(concat.last.out)] = concat.slices[2][1]

(* C20: fill_vec(max_bytes, v) appends to v the n bytes of a ++ b at the    *)
(* cursor, n = min(max_bytes, remaining), or remaining for None; it keeps  *)
(* what v held, advances the cursor by n and returns n; at the end it      *)
(* returns 0.                                                              *)
C20_FillVecAppends ==
    [][(concat.pc = "ready" /\ concat'.last.op = "fill_vec" /\ concat'.last.ok) =>
          LET n == IF concat'.last.arg = NoLimit THEN Remaining
                   ELSE Min(concat'.last.arg, Remaining)
          IN  /\ concat'.last.out = n
              /\ concat'.v = concat.v \o SubSeq(Concatenation, concat.ptr + 1, concat.ptr + n)
              /\ concat'.ptr = concat.ptr + n
              /\ concat.ptr = Len(Concatenation) => concat'.last.out = 0]_vars

\* Two calls have delivered a ++ b after the bytes v held: the first limited to
\* fewer bytes than the first slice holds, the second unlimited.
C20_Witness ==
    /\ concat.pc = "ready"
    /\ concat.last.op = "fill_vec"
    /\ concat.last.ok
    /\ concat.last.arg = NoLimit
    /\ concat.last.out \in 1 .. Len(Concatenation) - 1
    /\ Len(concat.slices[1]) = MaxSlice /\ Len(concat.slices[2]) >= 2
    /\ concat.ptr = Len(Concatenation)
    /\ concat.v = <<255>> \o Concatenation

-----------------------------------------------------------------------------
(* util::FloorLog2 and util::CeilLog2 for u32 and usize. log2 = [pc, ty,   *)
(* x] before the call and [pc, ty, x, fn, out] after it.                   *)

\* The receivers are 1 .. MaxX and the values around LargeX.
MaxX == 70

\* 2^k
RECURSIVE Pow2(_)
Pow2(k) == IF k = 0 THEN 1 ELSE 2 * Pow2(k - 1)

LargeX == Pow2(29)

\* The types the traits are implemented for, and their widths in bits
\* (usize of a 64-bit target).
IntTypes == {"u32", "usize"}
BitsOf(ty) == IF ty = "u32" THEN 32 ELSE 64

\* The number of binary digits of x.
RECURSIVE BitLength(_)
BitLength(x) == IF x = 0 THEN 0 ELSE 1 + BitLength(x \div 2)

\* x.leading_zeros() for a type of the given width.
leading_zeros(x, bits) == bits - BitLength(x)

\* a & b
RECURSIVE BitAnd(_, _)
BitAnd(a, b) ==
    IF a = 0 \/ b = 0 THEN 0
    ELSE 2 * BitAnd(a \div 2, b \div 2) + (IF a % 2 = 1 /\ b % 2 = 1 THEN 1 ELSE 0)

\* 0u32.leading_zeros() - self.leading_zeros() - 1, and the same for usize
floor_log2(x, ty) == leading_zeros(0, BitsOf(ty)) - leading_zeros(x, BitsOf(ty)) - 1

\* Mutation of ceil_log2: the test for a power of two is left out.
ceil_log2_always_up(x, ty) == floor_log2(x, ty) + 1

\* The blanket implementation of CeilLog2.
ceil_log2(x, ty) ==
    IF BitAnd(x, x - 1) # 0 THEN floor_log2(x, ty) + 1 ELSE floor_log2(x, ty)

Log2Inputs == (1 .. MaxX) \cup {LargeX - 1, LargeX, LargeX + 1}

InitLog2 ==
    /\ New(MaxChannels, <<MaxDim, MaxDim - 1>>, MaxL)
    /\ mirror = Idle /\ exec = Idle /\ concat = Idle
    /\ \E ty \in IntTypes, x \in Log2Inputs : log2 = [pc |-> "call", ty |-> ty, x |-> x]

\* x.floor_log2()
FloorLog2 ==
    /\ log2.pc = "call"
    /\ log2' = [pc |-> "returned", ty |-> log2.ty, x |-> log2.x, fn |-> "floor_log2",
                out |-> floor_log2(log2.x, log2.ty)]
    /\ UNCHANGED <<pipeline_vars, mirror, exec, concat>>

\* x.ceil_log2()
CeilLog2 ==
    /\ log2.pc = "call"
    /\ log2' = [pc |-> "returned", ty |-> log2.ty, x |-> log2.x, fn |-> "ceil_log2",
                out |-> ceil_log2(log2.x, log2.ty)]
    /\ UNCHANGED <<pipeline_vars, mirror, exec, concat>>

NextLog2 == FloorLog2 \/ CeilLog2

SpecLog2 == InitLog2 /\ [][NextLog2]_vars

\* The exponents of the powers of two compared with the receivers.
Exponents == 0 .. 30
IsPowerOfTwo(x) == \E k \in Exponents : Pow2(k) = x

(* C21: for x >= 1 of either type, floor_log2(x) is the largest k with     *)
(* 2^k <= x and ceil_log2(x) the smallest k with 2^k >= x; they are equal  *)
(* exactly when x is a power of two, and ceil_log2(x) = floor_log2(x) + 1  *)
(* otherwise.                                                              *)
C21_Log2FloorAndCeil ==
    log2.pc = "returned" =>
        /\ log2.fn = "floor_log2" =>
               /\ log2.out \in Exponents
               /\ Pow2(log2.out) <= log2.x
               /\ \A k \in Exponents : Pow2(k) <= log2.x => k <= log2.out
        /\ log2.fn = "ceil_log2" =>
               /\ log2.out \in Exponents
               /\ Pow2(log2.out) >= log2.x
               /\ \A k \in Exponents : Pow2(k) >= log2.x => k >= log2.out
               /\ (log2.out = floor_log2(log2.x, log2.ty)) <=> IsPowerOfTwo(log2.x)
               /\ ~IsPowerOfTwo(log2.x) => log2.out = floor_log2(log2.x, log2.ty) + 1

\* ceil_log2 has returned for a usize that is a power of two greater than 1.
C21_Witness ==
    /\ log2.pc = "returned"
    /\ log2.fn = "ceil_log2"
    /\ log2.ty = "usize"
    /\ log2.x > 1
    /\ IsPowerOfTwo(log2.x)
    /\ log2.out = floor_log2(log2.x, log2.ty)

-----------------------------------------------------------------------------
(* Vocabulary of the properties of the builder.                            *)

NumChannels == Cardinality(DOMAIN channel_info[1])

AddStageReturned == last_call.op = "add_stage"

BuildReturned == last_call.op = "build"

\* The stages add_stage had already accepted when the last add_stage was called.
StagesBefore == IF result = Ok THEN SubSeq(stages, 1, Len(stages) - 1) ELSE stages

\* The channel shapes the last add_stage call started from.
InfoBefore ==
    IF result = Ok THEN channel_info[Len(channel_info) - 1]
    ELSE channel_info[Len(channel_info)]

\* Channels the stage passed to add_stage uses, whose type was known and is not
\* the stage's INPUT_TYPE.
KnownAndDifferent ==
    {c \in Channels(NumChannels) :
        /\ c \in last_call.stage.uses
        /\ InfoBefore[c].ty \in Types
        /\ InfoBefore[c].ty # last_call.stage.input_type}

Lowest(S) == CHOOSE c \in S : \A d \in S : c <= d

UnusedChannels ==
    {c \in Channels(NumChannels) : \A i \in 1 .. Len(stages) : c \notin stages[i].uses}

\* The sum of SHIFT[axis] over the stages i, i + 1, ... (numbered from 1) that use c.
RECURSIVE ShiftSum(_, _, _)
ShiftSum(c, i, axis) ==
    IF i > Len(stages) THEN 0
    ELSE (IF c \in stages[i].uses THEN stages[i].shift[axis] ELSE 0)
         + ShiftSum(c, i + 1, axis)

SomeSumOverflows ==
    \E c \in Channels(NumChannels) : ShiftSum(c, 1, 1) > 255 \/ ShiftSum(c, 1, 2) > 255

\* ceil(x / 2^s) for x >= 1: 2^s > s, so the quotient is 1 once s >= x.
CeilDivPow2(x, s) ==
    IF s >= x THEN 1
    ELSE CHOOSE n \in 1 .. x : n * 2^s >= x /\ (n - 1) * 2^s < x

ExtendThenShift(stgs) ==
    \E i, j \in 1 .. Len(stgs) :
        i < j /\ stgs[i].kind = "Extend" /\ stgs[j].shift # <<0, 0>>

-----------------------------------------------------------------------------
(* Vocabulary of the properties of the runtime.                            *)

\* The step is the do_render that ends a fill_input call.
RenderStep == last_call'.op = "do_render"

\* The number of stages whose process_row_chunk the step invoked.
StagesRun == last_call'.ran

Groups == DOMAIN group_ready_passes

\* The pipeline has two groups whose ready passes are p0 and p1.
TwoGroupsAt(p0, p1) ==
    Groups = {0, 1} /\ group_ready_passes[0] = p0 /\ group_ready_passes[1] = p1

\* The input buffers as build() allocates them.
EmptyBuffers == [c \in DOMAIN input_buffers |-> NewImage(input_buffers[c].size)]

\* The input buffers after the groups g, g + 1, ... have been filled in this order.
RECURSIVE FilledAscending(_, _)
FilledAscending(bufs, g) ==
    IF g \notin Groups THEN bufs
    ELSE LET goffset == GOffset(GroupOf(g, xgroups), log_group_size)
         IN  FilledAscending(
                 CopyTiles(bufs, channel_info[1], goffset,
                           GSize(input_size, goffset, log_group_size), GroupData(g)),
                 g + 1)

\* gsize as specified: (min(W, goffset.x + (1 << L)) - goffset.x, the same for y).
ClippedGroupSize(size, goffset, L) ==
    <<Min(size[1], goffset[1] + 2^L) - goffset[1],
      Min(size[2], goffset[2] + 2^L) - goffset[2]>>

-----------------------------------------------------------------------------
(* C1: the do_render of a fill_input call invokes process_row_chunk of a   *)
(* stage only if every group's ready passes, the call's increments         *)
(* included, exceed the completed_passes the call started with; while some *)
(* group's counter is not above completed_passes no stage runs and         *)
(* completed_passes keeps its value.                                       *)
C1_RenderOnlyWhenAllReady ==
    [][RenderStep =>
          /\ StagesRun > 0 => \A g \in Groups : group_ready_passes[g] > completed_passes
          /\ (\E g \in Groups : group_ready_passes[g] <= completed_passes) =>
                 /\ StagesRun = 0
                 /\ renders' = renders
                 /\ completed_passes' = completed_passes]_vars

\* A call that rendered nothing after an earlier call rendered a pass: one
\* group is still at the completed pass while another is ahead of it.
C1_Witness ==
    /\ last_call.op = "do_render"
    /\ last_call.ran = 0
    /\ renders = 1
    /\ completed_passes = 1
    /\ \E g, k \in Groups :
           group_ready_passes[g] = completed_passes /\ group_ready_passes[k] > completed_passes

(* C2: with two groups, once group 0 has reported one pass and group 1     *)
(* none, completed_passes is 0 and nothing was rendered; the call after    *)
(* which both have reported one pass executes the chain, exactly once in   *)
(* total, and leaves completed_passes at 1. In general a fill_input call   *)
(* that returns Ok executes the whole chain exactly once when it raises    *)
(* min(group_ready_passes) above completed_passes, by however many passes, *)
(* and does not execute it otherwise.                                      *)
C2_OneRenderPerNewPass ==
    /\ [](TwoGroupsAt(1, 0) => completed_passes = 0 /\ renders = 0)
    /\ [](completed_passes = 0 => renders = 0)
    /\ [][(RenderStep /\ TwoGroupsAt(1, 1) /\ completed_passes = 0 /\ result' = Ok) =>
              renders' = 1 /\ completed_passes' = 1 /\ StagesRun = Len(stages)]_vars
    /\ [][(RenderStep /\ result' = Ok) =>
              IF \A g \in Groups : group_ready_passes[g] > completed_passes
              THEN /\ renders' = renders + 1
                   /\ StagesRun = Len(stages)
                   /\ \E g \in Groups : completed_passes' = group_ready_passes[g]
                   /\ \A g \in Groups : completed_passes' <= group_ready_passes[g]
              ELSE /\ renders' = renders
                   /\ StagesRun = 0
                   /\ completed_passes' = completed_passes]_vars

\* Two groups that have both reported one pass: the call that ended has run
\* every stage, the only execution of the chain so far.
C2_Witness ==
    /\ TwoGroupsAt(1, 1)
    /\ last_call.op = "do_render"
    /\ last_call.ran = Len(stages)
    /\ result = Ok
    /\ renders = 1
    /\ completed_passes = 1

(* C3: once every group has been filled exactly once, the input buffers    *)
(* are the same whatever the order of the fills was: they are the buffers  *)
(* the fills in ascending order of group id leave.                         *)
C3_OrderIndependent ==
    (phase # "panicked" /\ \A g \in Groups : fills[g] = 1) =>
        input_buffers = FilledAscending(EmptyBuffers, 0)

(* C4: the tile of a fill of group id (id mod xgroups, id div xgroups) at   *)
(* goffset = group << L has gsize = min(size, goffset + (1 << L)) - goffset *)
(* on each axis, at most 1 << L, and the tile of a channel of shift s      *)
(* measures ceil(gsize / 2^s) on each axis.                                *)
C4_ClippedGroupSize ==
    last_call.op = "fill_input" =>
        LET L      == log_group_size
            id     == last_call.group_id
            offset == <<(id % xgroups) * 2^L, (id \div xgroups) * 2^L>>
            size   == ClippedGroupSize(input_size, offset, L)
        IN  /\ last_call.goffset = offset
            /\ last_call.gsize = size
            /\ last_call.gsize[1] <= 2^L /\ last_call.gsize[2] <= 2^L
            /\ \A c \in DOMAIN last_call.tiles :
                   last_call.tiles[c] =
                       <<CeilDivPow2(size[1], channel_info[1][c].downsample[1]),
                         CeilDivPow2(size[2], channel_info[1][c].downsample[2])>>

(* C14: do_render leaves the contents and the dimensions of every input    *)
(* buffer as they were, whatever the stages of the chain (Input, InPlace,  *)
(* InOut, Extend), so that a later render starts from what fill_input      *)
(* wrote.                                                                  *)
C14_RenderKeepsInputBuffers ==
    [][RenderStep => input_buffers' = input_buffers]_vars

\* A chain of all four kinds of stage has run to its end, its InOut stage
\* having resized a channel, and the input buffers still hold the samples
\* fill_input wrote for group 0.
C14_Witness ==
    /\ last_call.op = "do_render"
    /\ result = Ok
    /\ last_call.ran = Len(stages)
    /\ {stages[i].kind : i \in DOMAIN stages} = {"Input", "InPlace", "InOut", "Extend"}
    /\ \E c \in DOMAIN input_buffers :
           /\ input_buffers[c].size # input_size
           /\ input_buffers[c].data[<<0, 0>>] = GroupData(0)

\* The step is one entry of a fill_input list.
FillStep == last_call'.op = "fill_input"

\* The rectangle of a group in the input buffer of channel c: the group's
\* clipped rectangle, downsampled.
GroupRect(group_id, c) ==
    LET goffset == GOffset(GroupOf(group_id, xgroups), log_group_size)
        off     == TileOffset(goffset, channel_info[1][c].downsample)
        tsize   == TileSize(ClippedGroupSize(input_size, goffset, log_group_size),
                            channel_info[1][c].downsample)
    IN  {<<off[1] + p[1], off[2] + p[2]>> : p \in Pixels(tsize)}

(* C18: when the fill function of an entry of a fill_input list returns an *)
(* error, fill_input returns that error without rendering: completed       *)
(* passes, ready passes and input buffers are as the entries before it     *)
(* left them, the failing group is not counted and no later entry is       *)
(* processed. A successful fill of a group with data D, also one that      *)
(* follows a failed fill of the group, leaves the group's rectangle of     *)
(* every input buffer equal to D and adds num_filled_passes once.          *)
C18_FillErrorLeavesState ==
    /\ [][(FillStep /\ result'.kind = "FillError") =>
              /\ result' = Err("FillError")
              /\ phase' = "built"
              /\ UNCHANGED <<input_buffers, group_ready_passes, completed_passes, renders,
                             fills>>]_vars
    /\ [][(FillStep /\ result' = Pending) =>
              LET g == last_call'.group_id
              IN  /\ \A c \in DOMAIN input_buffers : \A p \in GroupRect(g, c) :
                         input_buffers'[c].data[p] = GroupData(g)
                  /\ group_ready_passes'[g] =
                         group_ready_passes[g] + last_call'.num_filled_passes
                  /\ \A k \in Groups \ {g} : group_ready_passes'[k] = group_ready_passes[k]
                  /\ completed_passes' = completed_passes]_vars

\* The second entry of a list has failed: the first entry's group is copied and
\* counted, the failing group is not, and nothing was rendered.
C18_Witness ==
    /\ last_call.op = "fill_input"
    /\ result = Err("FillError")
    /\ phase = "built"
    /\ fills[last_call.group_id] = 0
    /\ group_ready_passes[last_call.group_id] = 0
    /\ \E g \in Groups :
           /\ fills[g] = 1 /\ group_ready_passes[g] = 1
           /\ \A c \in DOMAIN input_buffers : \A p \in GroupRect(g, c) :
                  input_buffers[c].data[p] = GroupData(g)
    /\ completed_passes = 0 /\ renders = 0

\* The bucket the claim assigns to channel c: 1 or 2, the fill function whose
\* sample type is the channel's input type, the first when both have it; 0 when
\* neither has it.
BucketOf(c, types) ==
    IF channel_info[1][c].ty = types[1] THEN 1
    ELSE IF channel_info[1][c].ty = types[2] THEN 2 ELSE 0

\* The channels of a bucket in ascending order.
RECURSIVE Ascending(_)
Ascending(S) == IF S = {} THEN <<>> ELSE <<Lowest(S)>> \o Ascending(S \ {Lowest(S)})

\* What C25 says of an entry of the list that was processed to its end.
TilesAsClaimed ==
    LET types == last_call'.types
        g     == last_call'.group_id
        chans == DOMAIN channel_info[1]
        b1    == Ascending({c \in chans : BucketOf(c, types) = 1})
        b2    == Ascending({c \in chans : BucketOf(c, types) = 2})
    IN  /\ last_call'.images1 = b1
        /\ last_call'.images2 = b2
        /\ Len(b1) + Len(b2) = Cardinality(chans)
        /\ last_call'.fill_fns =
               (IF b1 # <<>> THEN <<1>> ELSE <<>>) \o (IF b2 # <<>> THEN <<2>> ELSE <<>>)
        /\ \A c \in chans :
               /\ last_call'.copied[c] = c
               /\ input_buffers'[c] =
                      WriteTile(input_buffers[c],
                                <<Shr(last_call'.goffset[1], channel_info[1][c].downsample[1]),
                                  Shr(last_call'.goffset[2], channel_info[1][c].downsample[2])>>,
                                FilledTile(last_call'.tiles[c], GroupData(g)))

\* Some channel has neither of the two types of the call.
SomeChannelOfOtherType ==
    \E c \in DOMAIN channel_info[1] : BucketOf(c, last_call'.types) = 0

(* C25 as stated: every channel gets one tile, in the bucket of the fill   *)
(* function of its type, in ascending channel order; the fill functions of *)
(* the non-empty buckets are invoked once each, the first before the       *)
(* second; input buffer c receives the tile handed out for channel c at    *)
(* the downsampled group offset; a channel of neither type makes the call  *)
(* panic.                                                                  *)
C25_AsStated ==
    /\ [][(FillStep /\ result' = Pending) => TilesAsClaimed]_vars
    /\ [][(FillStep /\ SomeChannelOfOtherType) => phase' = "panicked"]_vars

(* C25 amended: the same, but a channel of neither type makes the call     *)
(* panic only when the tiles of the channels before it were allocated; if  *)
(* one of these allocations fails the call returns OutOfMemory.            *)
C25_TilesAndBuckets ==
    /\ [][(FillStep /\ result' = Pending) => TilesAsClaimed]_vars
    /\ [][(FillStep /\ SomeChannelOfOtherType) =>
              \/ phase' = "panicked"
              \/ /\ result' = Err("OutOfMemory")
                 /\ \E c \in DOMAIN channel_info[1] :
                        BucketOf(c, last_call'.types) = 0 /\ c > 0]_vars

\* Three channels of types F32, U8, U8 filled with the types (U8, F32): the
\* first bucket holds the tiles of channels 1 and 2, the second that of
\* channel 0, both fill functions ran and every buffer holds the group's data.
C25_Witness ==
    /\ last_call.op = "fill_input"
    /\ result = Pending
    /\ last_call.images1 = <<1, 2>>
    /\ last_call.images2 = <<0>>
    /\ last_call.fill_fns = <<1, 2>>
    /\ \A c \in DOMAIN input_buffers :
           input_buffers[c].data[<<0, 0>>] = GroupData(last_call.group_id)

(* C26: completed_passes never exceeds any group's ready passes; neither   *)
(* it nor any group's counter ever decreases; group_ready_passes keeps     *)
(* num_groups = ceil(W / 2^L) * ceil(H / 2^L) entries; after a fill_input  *)
(* call that returns Ok completed_passes is the least of the counters.     *)
C26_PassCounters ==
    /\ [](\A g \in Groups : completed_passes <= group_ready_passes[g])
    /\ [][/\ completed_passes' >= completed_passes
          /\ \A g \in Groups : group_ready_passes'[g] >= group_ready_passes[g]]_vars
    /\ [](/\ Groups = 0 .. num_groups(xgroups, input_size, log_group_size) - 1
          /\ Cardinality(Groups) = CeilDivPow2(input_size[1], log_group_size)
                                   * CeilDivPow2(input_size[2], log_group_size))
    /\ [][(RenderStep /\ result' = Ok) =>
              /\ \E g \in Groups : completed_passes' = group_ready_passes'[g]
              /\ \A g \in Groups : completed_passes' <= group_ready_passes'[g]]_vars

\* Several groups, some of them filled more than once, have been brought to
\* two passes by calls that returned Ok and rendered twice.
C26_Witness ==
    /\ last_call.op = "do_render"
    /\ result = Ok
    /\ Cardinality(Groups) >= 2
    /\ \E g \in Groups : fills[g] = 2
    /\ \A g \in Groups : group_ready_passes[g] = 2
    /\ completed_passes = 2
    /\ renders = 2

(* C27: when the render of a fill_input call fails with OutOfMemory, in    *)
(* the copy of the input buffers or in the allocation of a stage's         *)
(* buffers, the call returns the error and completed_passes keeps its      *)
(* value, so that no pass counts as completed unless the chain of stages   *)
(* has been executed for it.                                               *)
C27_RenderErrorKeepsCompleted ==
    /\ [][(RenderStep /\ result' = Err("OutOfMemory")) =>
              completed_passes' = completed_passes]_vars
    /\ [](phase # "panicked" /\ renders = 0 => completed_passes = 0)

\* The channels whose cumulative input downsampling exceeds log_group_size on
\* some axis.
ShiftedBeyondGroup ==
    {c \in DOMAIN channel_info[1] :
        \/ channel_info[1][c].downsample[1] > log_group_size
        \/ channel_info[1][c].downsample[2] > log_group_size}

(* C28: the offset of every group is divisible by 1 << sx and 1 << sy for  *)
(* every channel whose cumulative input downsampling (sx, sy) does not     *)
(* exceed log_group_size, so an alignment assertion of fill_input fails    *)
(* only for a channel whose shift exceeds log_group_size; build() returns  *)
(* such pipelines, and the failure is a panic of fill_input, not an error  *)
(* it returns.                                                             *)
C28_AlignmentWithinGroupSize ==
    /\ [](\A g \in Groups : \A c \in DOMAIN channel_info[1] \ ShiftedBeyondGroup :
              LET goffset == GOffset(GroupOf(g, xgroups), log_group_size)
              IN  /\ goffset[1] % (2 ^ channel_info[1][c].downsample[1]) = 0
                  /\ goffset[2] % (2 ^ channel_info[1][c].downsample[2]) = 0)
    /\ [][(FillStep /\ result'.kind = "panic_misaligned_group") =>
              /\ phase' = "panicked"
              /\ \E c \in ShiftedBeyondGroup :
                     \/ last_call'.goffset[1] % (2 ^ channel_info[1][c].downsample[1]) # 0
                     \/ last_call'.goffset[2] % (2 ^ channel_info[1][c].downsample[2]) # 0]_vars
    /\ [][(FillStep /\ ShiftedBeyondGroup = {}) =>
              result'.kind # "panic_misaligned_group"]_vars
    /\ [][(FillStep /\ result'.kind \notin {"Pending", "panic_misaligned_group"}
                    /\ phase' # "panicked") =>
              result'.kind \in {"OutOfMemory", "FillError"}]_vars

\* A pipeline that build() returned, with a channel downsampled by more than
\* the group size, has panicked in fill_input of a group whose offset is odd.
C28_Witness ==
    /\ last_call.op = "fill_input"
    /\ phase = "panicked"
    /\ result = Panic("panic_misaligned_group")
    /\ ShiftedBeyondGroup # {}
    /\ last_call.goffset[1] % 2 = 1

\* The stages among the first n that write channel c.
Writers(c, n) == {i \in 1 .. n : uses_channel(stages[i], c) /\ stages[i].kind # "Input"}

RECURSIVE SizesBefore(_)
SizesBefore(i) ==
    IF i = 1 THEN [c \in DOMAIN input_buffers |-> input_buffers[c].size]
    ELSE OutputSizes(stages[i - 1], SizesBefore(i - 1), input_size, channel_info[i])

\* The last call was a render that got as far as the assertions of stage i.
RenderReached(i) ==
    /\ last_call.op = "do_render"
    /\ \/ last_call.ran >= i
       \/ last_call.ran = i - 1 /\ phase = "panicked"

(* C22: when a render reaches an InOut stage with shift (SX, SY), each     *)
(* used channel's output buffer is (in_w << SX, in_h << SY) for the        *)
(* channel's size (in_w, in_h) before the stage, the used channels agree   *)
(* in size, and the size assertions of the executors never fail, also for  *)
(* image sizes that are not multiples of 2^shift.                          *)
C22_InOutSizesShifted ==
    /\ result # Panic("panic_size_assertion")
    /\ \A i \in DOMAIN stages :
           (stages[i].kind = "InOut" /\ RenderReached(i)) =>
               LET in_sizes  == SizesBefore(i)
                   out_sizes == OutputSizes(stages[i], in_sizes, input_size,
                                            channel_info[i + 1])
                   used      == {c \in DOMAIN in_sizes : uses_channel(stages[i], c)}
               IN  /\ \A c \in used :
                          out_sizes[c] = <<Shl(in_sizes[c][1], stages[i].shift[1]),
                                           Shl(in_sizes[c][2], stages[i].shift[2])>>
                   /\ \A c, d \in used :
                          in_sizes[c] = in_sizes[d] /\ out_sizes[c] = out_sizes[d]

-----------------------------------------------------------------------------
(* Vocabulary of the properties of the executors.                          *)

ExecDone(kind) == exec.pc # "idle" /\ exec.pc # "call" /\ exec.kind = kind

\* Every call of process_row_chunk was for 1 .. chunk_size samples inside the rows.
ChunksWellFormed(size) ==
    \A k \in DOMAIN exec.calls :
        /\ exec.calls[k].xsize \in 1 .. exec.chunk_size
        /\ ChunkInside(size, exec.calls[k])

\* The chunks of row y, taken together, hold every column exactly once.
ChunksPartitionRow(width, y) ==
    \A x \in 0 .. width - 1 :
        Cardinality({k \in DOMAIN exec.calls :
                        /\ exec.calls[k].y = y
                        /\ x - exec.calls[k].x \in 0 .. exec.calls[k].xsize - 1}) = 1

\* [[1,1,2,2],[1,1,2,2],[3,3,4,4],[3,3,4,4]], row by row.
DuplicatedExample == <<<<1, 1, 2, 2>>, <<1, 1, 2, 2>>, <<3, 3, 4, 4>>, <<3, 3, 4, 4>>>>

C15_InPlaceIdentity ==
    (ExecDone("InPlace") /\ exec.stage.fn = "untouched") =>
        /\ exec.pc = "returned"
        /\ \A c \in DOMAIN exec.input :
               /\ exec.output[c] = exec.input[c]
               /\ \A p \in Pixels(exec.input[c].size) :
                      exec.read[c][p] = 1 /\ exec.written[c][p] = 1
        /\ ChunksWellFormed(exec.input[1].size)

\* Two channels five samples wide, run in chunks of three.
C15_Witness ==
    /\ ExecDone("InPlace") /\ exec.stage.fn = "untouched"
    /\ exec.pc = "returned"
    /\ Len(exec.input) = 2
    /\ exec.input[1].size = <<5, 2>>
    /\ exec.chunk_size = 3
    /\ exec.output[2] = exec.input[2]
    /\ exec.output[2] # exec.input[1]

(* C16: an InOut stage with borders (BX, BY) and shift (SX, SY) receives   *)
(* for the chunk at (x, y) a window whose entry (iy, ix) is the input      *)
(* sample at column mirror(x + ix - BX), row mirror(y + iy - BY); its      *)
(* 1 << SY rows of xsize << SX samples are stored at (x << SX, y << SY),   *)
(* every output sample being written exactly once; a nearest-neighbour     *)
(* stage with BX = BY = 0, SX = SY = 1 turns [[1,2],[3,4]] into            *)
(* [[1,1,2,2],[1,1,2,2],[3,3,4,4],[3,3,4,4]].                              *)
C16_InOutWindowsAndRows ==
    ExecDone("InOut") =>
        LET in     == exec.input[1]
            out    == exec.output[1]
            border == exec.stage.border
            shift  == exec.stage.shift
        IN  /\ exec.pc = "returned"
            /\ ChunksWellFormed(in.size)
            /\ \A k \in DOMAIN exec.calls :
                   /\ DOMAIN exec.windows[k] =
                          (0 .. 2 * border[2]) \X (0 .. exec.calls[k].xsize + 2 * border[1] - 1)
                   /\ \A q \in DOMAIN exec.windows[k] :
                          exec.windows[k][q] =
                              in.data[<<Reflect(exec.calls[k].x + q[2] - border[1], in.size[1]),
                                        Reflect(exec.calls[k].y + q[1] - border[2], in.size[2])>>]
            /\ \A p \in Pixels(out.size) :
                   /\ exec.written[1][p] = 1
                   /\ out.data[p] = in.data[<<p[1] \div 2^shift[1], p[2] \div 2^shift[2]>>]
            /\ (in = TestImage(<<2, 2>>, 1) /\ border = <<0, 0>> /\ shift = <<1, 1>>) =>
                   \A p \in Pixels(<<4, 4>>) : out.data[p] = DuplicatedExample[p[2] + 1][p[1] + 1]

\* The example, run in chunks of one sample.
C16_Witness ==
    /\ ExecDone("InOut")
    /\ exec.pc = "returned"
    /\ exec.input[1] = TestImage(<<2, 2>>, 1)
    /\ exec.stage.border = <<0, 0>> /\ exec.stage.shift = <<1, 1>>
    /\ exec.chunk_size = 1
    /\ exec.output[1].size = <<4, 4>>
    /\ exec.output[1].data[<<3, 3>>] = 4

(* C17: an Extend stage with origin (ox, oy) returns with the input sample *)
(* (i, j) at (ox + i, oy + j) of the output; its chunks have 0 .. chunk    *)
(* size samples, are computed without underflow and cover the pixels       *)
(* outside [ox, ox + W_in) x [oy, oy + H_in) once each and no pixel inside *)
(* it, for every chunk size and output width.                              *)
C17_ExtendCoversOutside ==
    ExecDone("Extend") =>
        LET in     == exec.input[1]
            out    == exec.output[1]
            origin == exec.stage.origin
            inside == {<<origin[1] + p[1], origin[2] + p[2]>> : p \in Pixels(in.size)}
        IN  /\ exec.pc = "returned"
            /\ \A k \in DOMAIN exec.calls : exec.calls[k].xsize \in 0 .. exec.chunk_size
            /\ \A p \in Pixels(in.size) :
                   out.data[<<origin[1] + p[1], origin[2] + p[2]>>] = in.data[p]
            /\ \A p \in Pixels(out.size) :
                   IF p \in inside THEN exec.written[1][p] = 0
                   ELSE exec.written[1][p] = 1 /\ out.data[p] = exec.stage.fill

\* The same, of the calls that return.
C17_WhenItReturns ==
    (ExecDone("Extend") /\ exec.pc = "returned") => C17_ExtendCoversOutside

-----------------------------------------------------------------------------
(* C5: when every add_stage returned Ok and every channel is used by a     *)
(* stage, build() does not fail its type assertion, and in the pipeline it *)
(* returns every channel has a known type at every stage boundary, the     *)
(* stage's INPUT_TYPE before and OUTPUT_TYPE after a stage that uses it.   *)
C5_BuildTypesAgree ==
    (BuildReturned /\ UnusedChannels = {}) =>
        /\ result.kind # "panic_type_assertion"
        /\ phase = "built" =>
               \A i \in 1 .. Len(stages) : \A c \in Channels(NumChannels) :
                   /\ channel_info[i][c].ty \in Types
                   /\ channel_info[i + 1][c].ty \in Types
                   /\ c \in stages[i].uses =>
                          /\ channel_info[i][c].ty = stages[i].input_type
                          /\ channel_info[i + 1][c].ty = stages[i].output_type

(* C23: in the pipeline build() returns, a channel that a stage does not    *)
(* use has the same sample type before and after that stage, also when    *)
(* the channel's type was known before the sweep reached the stage.       *)
C23_UnusedChannelKeepsType ==
    (BuildReturned /\ phase = "built") =>
        \A i \in 1 .. Len(stages) : \A c \in Channels(NumChannels) :
            ~uses_channel(stages[i], c) => channel_info[i][c].ty = channel_info[i + 1][c].ty

(* C6: add_stage returns PipelineChannelTypeMismatch(stage, c, INPUT_TYPE,  *)
(* the channel's type) exactly when the stage uses a channel whose type is *)
(* known and differs from INPUT_TYPE, c being the lowest such channel.     *)
C6_TypeMismatchExactly ==
    AddStageReturned =>
        IF KnownAndDifferent # {}
        THEN /\ phase = "failed"
             /\ result = [kind |-> "PipelineChannelTypeMismatch",
                          c |-> Lowest(KnownAndDifferent),
                          expected |-> last_call.stage.input_type,
                          actual |-> InfoBefore[Lowest(KnownAndDifferent)].ty]
        ELSE result.kind # "PipelineChannelTypeMismatch"

\* C6's case: two channels mismatch, and a stage met an unknown channel before.
C6_Witness ==
    /\ AddStageReturned
    /\ result.kind = "PipelineChannelTypeMismatch"
    /\ Cardinality(KnownAndDifferent) >= 2

(* C7 as stated: after an Extend stage, add_stage of a stage with nonzero  *)
(* SHIFT returns PipelineShiftAfterExpand and appends nothing; no pipeline *)
(* holds a shifting stage after an Extend stage; a shifting stage added    *)
(* before the first Extend stage is accepted.                              *)
C7_AsStated ==
    /\ [][(last_call'.op = "add_stage" /\ last_call'.stage.shift # <<0, 0>>) =>
             IF \E i \in 1 .. Len(stages) : stages[i].kind = "Extend"
             THEN result'.kind = "PipelineShiftAfterExpand" /\ stages' = stages
             ELSE result' = Ok /\ stages' = Append(stages, last_call'.stage)]_vars
    /\ [](~ExtendThenShift(stages))

(* C7 amended: the type check comes first. A shifting stage that fails it  *)
(* gets PipelineChannelTypeMismatch; one that passes it gets               *)
(* PipelineShiftAfterExpand after an Extend stage and is accepted before.  *)
C7_ShiftAfterExtend ==
    /\ [][(last_call'.op = "add_stage" /\ last_call'.stage.shift # <<0, 0>>) =>
             IF \E c \in Channels(NumChannels) :
                    /\ c \in last_call'.stage.uses
                    /\ channel_info[Len(channel_info)][c].ty \in Types
                    /\ channel_info[Len(channel_info)][c].ty # last_call'.stage.input_type
             THEN /\ result'.kind = "PipelineChannelTypeMismatch"
                  /\ stages' = stages /\ phase' = "failed"
             ELSE IF \E i \in 1 .. Len(stages) : stages[i].kind = "Extend"
             THEN /\ result'.kind = "PipelineShiftAfterExpand"
                  /\ stages' = stages /\ phase' = "failed"
             ELSE result' = Ok /\ stages' = Append(stages, last_call'.stage)]_vars
    /\ [](~ExtendThenShift(stages))

\* C7's case: a shifting stage was accepted, then an Extend stage, and the next
\* shifting stage was refused.
C7_Witness ==
    /\ AddStageReturned
    /\ result.kind = "PipelineShiftAfterExpand"
    /\ \E i, j \in 1 .. Len(stages) :
           i < j /\ stages[i].shift # <<0, 0>> /\ stages[j].kind = "Extend"

(* C8 as stated: build() returns PipelineChannelUnused(c) when a channel c *)
(* is used by no stage, and never when every channel is used.              *)
C8_AsStated ==
    BuildReturned =>
        IF UnusedChannels # {}
        THEN result.kind = "PipelineChannelUnused" /\ result.c \in UnusedChannels
        ELSE result.kind # "PipelineChannelUnused"

(* C8 amended: with a channel used by no stage build() returns no pipeline:*)
(* it returns PipelineChannelUnused(c), c the lowest unused channel,       *)
(* unless the reverse sweep ended the call before, with ArithmeticOverflow *)
(* (a channel's shifts sum to more than 255) or at its type assertion;     *)
(* with every channel used it never returns PipelineChannelUnused.         *)
C8_ChannelUnused ==
    BuildReturned =>
        IF UnusedChannels # {}
        THEN /\ phase = "failed"
             /\ result.kind \in {"PipelineChannelUnused", "ArithmeticOverflow",
                                 "panic_type_assertion"}
             /\ result.kind = "PipelineChannelUnused" =>
                    result.c = Lowest(UnusedChannels)
             /\ result.kind = "ArithmeticOverflow" => SomeSumOverflows
             /\ (~SomeSumOverflows /\ \A i, j \in 1 .. Len(stages) :
                                         stages[i].output_type = stages[j].input_type)
                    => result.kind = "PipelineChannelUnused"
        ELSE result.kind # "PipelineChannelUnused"

\* C8's case: stages were added, two channels are used by none of them.
C8_Witness ==
    /\ BuildReturned
    /\ result.kind = "PipelineChannelUnused"
    /\ Len(stages) >= 1

(* C9: after a successful build() the downsample recorded for channel c    *)
(* before stage i is the sum of SHIFT over the stages i, i+1, ... that use *)
(* c, and the input buffer of c measures ceil(W / 2^S.x) by ceil(H / 2^S.y)*)
(* for the sum S over all stages.                                          *)
C9_CumulativeDownsample ==
    phase = "built" =>
        \A c \in Channels(NumChannels) :
            /\ \A i \in 1 .. Len(channel_info) :
                   channel_info[i][c].downsample = <<ShiftSum(c, i, 1), ShiftSum(c, i, 2)>>
            /\ input_buffers[c].size =
                   <<CeilDivPow2(input_size[1], ShiftSum(c, 1, 1)),
                     CeilDivPow2(input_size[2], ShiftSum(c, 1, 2))>>
            /\ DOMAIN input_buffers[c].data =
                   (0 .. input_buffers[c].size[1] - 1) \X (0 .. input_buffers[c].size[2] - 1)

\* C9's case: three shifting stages on one channel, another channel with less.
C9_Witness ==
    /\ phase = "built"
    /\ \E c, d \in Channels(NumChannels) :
           /\ ShiftSum(c, 1, 1) >= 130 /\ ShiftSum(c, 2, 1) \in 1 .. 129
           /\ ShiftSum(d, 1, 1) = 1
           /\ input_buffers[d].size[1] < input_size[1]

(* C10: build() returns ArithmeticOverflow, and no pipeline, exactly when  *)
(* some channel's sum of stage shifts exceeds 255 on the x or the y axis.  *)
C10_OverflowExactly ==
    BuildReturned =>
        /\ result.kind = "ArithmeticOverflow" <=> SomeSumOverflows
        /\ result.kind = "ArithmeticOverflow" => phase = "failed"

====
